---- MODULE Spec2Model ----
(***************************************************************************)
(* boss-bus: the BusLocker middleware (src/src/boss_bus/middleware/lock.py) *)
(* as a state machine.  Several threads of one process share one BusLocker. *)
(* Every thread has a call stack of frames: a "handle" frame is one call of *)
(* BusLocker.handle, a "handler" frame is one call of a continuation        *)
(* (next_middleware), whose handler may call handle again (a nested call).  *)
(* One action is one access to the shared state of the locker               *)
(* (locking_thread, timeout, queue) together with the local code up to the  *)
(* next access.                                                             *)
(***************************************************************************)
EXTENDS Integers, Sequences, FiniteSets, TLC

VARIABLES
    locking_thread,  \* BusLocker.locking_thread.value: 0, or the owner's id
    timeout,         \* BusLocker.timeout.value: the shared timeout
    queue,           \* BusLocker.queue: the postponed messages, in order
    stack,           \* per thread: its call stack, the outermost frame first
    elapsed,         \* per thread: time passed since its wait began
    left,            \* number of top-level handle calls still to be made
    callers,         \* the threads that make top-level calls
    buses,           \* per MessageBus: the middleware argument it was built with
    os_ids,          \* per thread: its os.getpid() and threading.get_ident()
    result,          \* per thread: the outcome of its last top-level call
    invoked,         \* history: per queue position, how often it was invoked
    unlocks,         \* history: per thread, how many _unlock_bus it has run
    expired,         \* history: the timeout of some wait has elapsed
    middleware,      \* MessageBus.middleware: the middlewares, outermost first
    frames,          \* the call stack of the bus call in progress
    records,         \* the log records emitted so far, in order
    calls,           \* history: the calls of the terminal bus closure
    ret,             \* what the call that ended last returned or raised
    entry,           \* the bus call in progress, or the last one
    outcome,         \* what the last bus call returned or raised to its caller
    dleft,           \* number of bus calls still to be made
    handlers,        \* CommandBus._handlers: command type -> handler
    op,              \* history: the last operation on the CommandBus
    prev,            \* history: the operation before it
    event_handlers,  \* EventBus._handlers: event type -> list of handlers
    eop              \* history: the last operation on the EventBus

\* the state of the BusLocker and of its callers
lockerVars == <<locking_thread, timeout, queue, stack, elapsed, left, callers,
                buses, os_ids, result, invoked, unlocks, expired>>

\* the state of a MessageBus call through its middleware chain
chainVars == <<middleware, frames, records, calls, ret, entry, outcome, dleft>>

\* the state of the CommandBus
registryVars == <<handlers, op, prev>>

\* the state of the EventBus
eventVars == <<event_handlers, eop>>

vars == <<lockerVars, chainVars, registryVars, eventVars>>

\* what no step of the BusLocker writes
apart == <<callers, buses, os_ids, chainVars, registryVars, eventVars>>

---------------------------------------------------------------------------
(* Bounds of the model *)

\* the timeout argument the BusLocker is constructed with, in clock ticks
DefaultTimeout == 1

\* top-level handle calls made in one run, over all threads
MaxCalls == 2

\* the threads that share the locker
Threads == {1, 2, 3}

\* frames on one thread's call stack beyond which no further nested call is
\* followed (the interpreter's recursion limit, far smaller)
MaxDepth == 5

\* width in bits of the unsigned long that holds the owner's id
ULongBits == 16

---------------------------------------------------------------------------
(* Messages and their handlers *)

None == "None"

\* The messages of the model.  locking_message is the marker BusLocker looks
\* for, locking_timeout the optional override (has_timeout says whether the
\* attribute exists).  nested, raises and ret describe the continuation the
\* message is handled by: the messages its handler passes to the same
\* locker, whether it then raises, and the value it returns otherwise.
Message ==
    [ L    |-> [locking_message |-> TRUE,  has_timeout |-> FALSE, locking_timeout |-> 0,
                nested |-> << >>, raises |-> FALSE, ret |-> "rL"],
      N    |-> [locking_message |-> FALSE, has_timeout |-> FALSE, locking_timeout |-> 0,
                nested |-> << >>, raises |-> FALSE, ret |-> "rN"],
      LT   |-> [locking_message |-> TRUE,  has_timeout |-> TRUE,
                locking_timeout |-> DefaultTimeout + 1,
                nested |-> << >>, raises |-> FALSE, ret |-> "rLT"],
      Nest |-> [locking_message |-> TRUE,  has_timeout |-> FALSE, locking_timeout |-> 0,
                nested |-> <<"P1", "P2">>, raises |-> FALSE, ret |-> "rNest"],
      Boom |-> [locking_message |-> TRUE,  has_timeout |-> FALSE, locking_timeout |-> 0,
                nested |-> <<"P1">>, raises |-> TRUE, ret |-> "rBoom"],
      P1   |-> [locking_message |-> FALSE, has_timeout |-> FALSE, locking_timeout |-> 0,
                nested |-> << >>, raises |-> FALSE, ret |-> "rP1"],
      P2   |-> [locking_message |-> FALSE, has_timeout |-> FALSE, locking_timeout |-> 0,
                nested |-> << >>, raises |-> FALSE, ret |-> "rP2"],
      Chain  |-> [locking_message |-> TRUE, has_timeout |-> FALSE, locking_timeout |-> 0,
                  nested |-> <<"Relock">>, raises |-> FALSE, ret |-> "rChain"],
      Relock |-> [locking_message |-> TRUE, has_timeout |-> FALSE, locking_timeout |-> 0,
                  nested |-> <<"L">>, raises |-> FALSE, ret |-> "rRelock"] ]

MessageNames == DOMAIN Message

\* the messages a thread passes to handle at top level
TopMessages(t) ==
    CASE t = 1 -> {"LT", "Nest", "Boom"}
      [] t = 2 -> {"L", "N"}
      [] OTHER -> {"L"}

\* (mutant) every message is taken for a locking message
message_applicable_Always(m) == TRUE

\* Middleware.message_applicable with message_id = "locking_message"
message_applicable(m) == Message[m].locking_message

---------------------------------------------------------------------------
(* get_thread_id and the unsigned long it is stored in *)

\* the threads of one process, with small identifiers: what os.getpid() and
\* threading.get_ident() return in each
ThreadsOfOneProcess == [t \in Threads |-> [pid |-> 7, ident |-> t]]

Pid(t) == os_ids[t].pid
Ident(t) == os_ids[t].ident

RECURSIVE Digits(_)
Digits(n) == IF n < 10 THEN 1 ELSE 1 + Digits(n \div 10)

RECURSIVE Pow10(_)
Pow10(k) == IF k = 0 THEN 1 ELSE 10 * Pow10(k - 1)

\* int(str(os.getpid()) + str(threading.get_ident()))
get_thread_id(t) == Pid(t) * Pow10(Digits(Ident(t))) + Ident(t)

\* the value a multiprocessing Value("L") holds after an assignment: the
\* field is ULongBits wide (64 in the code; the model's integers are narrower,
\* and the ids of the model's threads fit either width)
c_ulong(x) == x % (2 ^ ULongBits)

\* the thread an owner id belongs to
ThreadOf(id) == CHOOSE t \in Threads : c_ulong(get_thread_id(t)) = id

---------------------------------------------------------------------------
(* Frames *)

\* a call of BusLocker.handle(message m)
HandleFrame(m) ==
    [kind |-> "handle", msg |-> m, pc |-> "start", k |-> 0,
     saw |-> 0, sawUnl |-> 0, timedOut |-> FALSE, deadline |-> 0, tmoAtStart |-> 0,
     qstart |-> 0, drained |-> << >>, path |-> "", res |-> None]

\* a call of the continuation of message m
HandlerFrame(m) ==
    [kind |-> "handler", msg |-> m, pc |-> "run", k |-> 1,
     saw |-> 0, sawUnl |-> 0, timedOut |-> FALSE, deadline |-> 0, tmoAtStart |-> 0,
     qstart |-> 0, drained |-> << >>, path |-> "", res |-> None]

Depth(t) == Len(stack[t])
Top(t) == stack[t][Depth(t)]
Below(t) == stack[t][Depth(t) - 1]

AtPc(t, p) == Depth(t) > 0 /\ Top(t).kind = "handle" /\ Top(t).pc = p

SetTop(t, f) == [stack EXCEPT ![t] = [@ EXCEPT ![Len(@)] = f]]
Push(s, f) == Append(s, f)
Pop(s) == SubSeq(s, 1, Len(s) - 1)

\* the outcome of a top-level call: none yet, "ret" (handle returned) or
\* "raise" (an exception reached the caller; held: it was raised while a
\* handle of this thread was in the continuation of a locking message, whose
\* lock window began at queue length qstart)
NoResult == [kind |-> "none", held |-> FALSE, qstart |-> 0]

---------------------------------------------------------------------------
(* The components at rest: each specification runs one component and      *)
(* leaves the others as they are before anything is done with them        *)

\* nothing has returned or raised
NoReturn == [kind |-> "none", val |-> None]

\* no bus call has been made
NoEntry == [op |-> "none", msg |-> None, handler |-> None, base |-> 0, cbase |-> 0]

\* no operation on the CommandBus has been made
NoOp ==
    [name |-> "none", command_type |-> None, handler |-> None, command |-> None,
     raised |-> None, returned |-> << >>, invoked |-> << >>, before |-> << >>]

\* the locker is called directly (locker.handle), not through a MessageBus
NoBuses == << >>

\* a BusLocker that nobody calls
LockerIdle ==
    /\ locking_thread = 0
    /\ timeout = DefaultTimeout
    /\ queue = << >>
    /\ stack = [t \in Threads |-> << >>]
    /\ elapsed = [t \in Threads |-> 0]
    /\ left = 0
    /\ callers = {}
    /\ buses = NoBuses
    /\ os_ids = ThreadsOfOneProcess
    /\ result = [t \in Threads |-> NoResult]
    /\ invoked = << >>
    /\ unlocks = [t \in Threads |-> 0]
    /\ expired = FALSE

\* a MessageBus without middleware on which no call is made
ChainIdle ==
    /\ middleware = << >>
    /\ frames = << >>
    /\ records = << >>
    /\ calls = << >>
    /\ ret = NoReturn
    /\ entry = NoEntry
    /\ outcome = NoReturn
    /\ dleft = 0

\* CommandBus.__init__: an empty registry, no operation made
RegistryIdle ==
    /\ handlers = << >>
    /\ op = NoOp
    /\ prev = NoOp

\* no operation on the EventBus has been made
NoEventOp ==
    [name |-> "none", event_type |-> None, handlers |-> <<None>>, event |-> None,
     raised |-> None, returned |-> << >>, invoked |-> << >>, before |-> << >>]

\* EventBus.__init__: a defaultdict without keys, no operation made
EventIdle ==
    /\ event_handlers = << >>
    /\ eop = NoEventOp

---------------------------------------------------------------------------
(* Initial state: BusLocker.__init__, no call made yet *)

Init ==
    /\ locking_thread = 0
    /\ timeout = DefaultTimeout
    /\ queue = << >>
    /\ stack = [t \in Threads |-> << >>]
    /\ elapsed = [t \in Threads |-> 0]
    /\ left = MaxCalls
    /\ callers = Threads
    /\ buses = NoBuses
    /\ os_ids = ThreadsOfOneProcess
    /\ result = [t \in Threads |-> NoResult]
    /\ invoked = << >>
    /\ unlocks = [t \in Threads |-> 0]
    /\ expired = FALSE
    /\ ChainIdle
    /\ RegistryIdle
    /\ EventIdle

---------------------------------------------------------------------------
(* Pieces of BusLocker *)

\* bus_locked
bus_locked == locking_thread # 0

\* (mutant) the owner is never recognised
in_locking_thread_Never(t) == FALSE

\* _in_locking_thread(thread_id)
in_locking_thread(t) == locking_thread = get_thread_id(t)

\* (mutant) the waiting message's own override is ignored
WaitTimeout_Shared(m, shared) == shared

\* getattr(message, "locking_timeout", self.timeout.value) in _wait_for_unlock
WaitTimeout(m, shared) ==
    IF Message[m].has_timeout THEN Message[m].locking_timeout ELSE shared

\* getattr(message, "locking_timeout", self.default_timeout) in _lock_bus
LockTimeout(m) ==
    IF Message[m].has_timeout THEN Message[m].locking_timeout ELSE DefaultTimeout

\* (mutant) the queue is drained from its end
DrainIndex_Lifo(k, n) == n - k + 1

\* the position of the queue that the k-th iteration of _handle_queue visits
DrainIndex(k, n) == k

\* (mutant) the value of the last drained continuation is returned
AfterDrained_Last(res, r) == r

\* what handle keeps as its result when a drained continuation returned r
AfterDrained(res, r) == res

\* what handle does once the bus is not locked or the wait is over: a message
\* without the marker goes straight to its continuation, a locking message
\* goes on to _lock_bus
PastGate(f) ==
    IF message_applicable(f.msg)
        THEN <<[f EXCEPT !.pc = "lock"]>>
        ELSE <<[f EXCEPT !.pc = "pass"], HandlerFrame(f.msg)>>

\* the stack of t with its top frame f replaced by the frames fs
Replace(t, fs) == [stack EXCEPT ![t] = Pop(@) \o fs]

---------------------------------------------------------------------------
(* Actions *)

\* a thread calls locker.handle(m, next) from outside any handler
Call(t) ==
    /\ stack[t] = << >>
    /\ left > 0
    /\ t \in callers
    /\ \E m \in TopMessages(t) :
           stack' = [stack EXCEPT ![t] = <<HandleFrame(m)>>]
    /\ left' = left - 1
    /\ UNCHANGED apart
    /\ result' = [result EXCEPT ![t] = NoResult]
    /\ UNCHANGED <<locking_thread, timeout, queue, elapsed, invoked, unlocks, expired>>

\* handle, line 79: if self.bus_locked
ReadLocked(t) ==
    /\ AtPc(t, "start")
    /\ IF bus_locked
          THEN stack' = SetTop(t, [Top(t) EXCEPT !.pc = "owner",
                                      !.saw = locking_thread,
                                      !.sawUnl = unlocks[ThreadOf(locking_thread)]])
          ELSE stack' = Replace(t, PastGate(Top(t)))
    /\ UNCHANGED <<locking_thread, timeout, queue, elapsed, left, apart, result,
                   invoked, unlocks, expired>>

\* handle, lines 80-84: the owner's own call is postponed and returns None,
\* any other caller goes on to wait
ReadOwner(t) ==
    /\ AtPc(t, "owner")
    /\ IF in_locking_thread(t)
          THEN /\ queue' = Append(queue, Top(t).msg)
               /\ invoked' = Append(invoked, 0)
               /\ stack' = SetTop(t, [Top(t) EXCEPT !.pc = "ret",
                                         !.path = "postponed", !.res = None])
          ELSE /\ stack' = SetTop(t, [Top(t) EXCEPT !.pc = "waitinit"])
               /\ UNCHANGED <<queue, invoked>>
    /\ UNCHANGED <<locking_thread, timeout, elapsed, left, apart, result, unlocks, expired>>

\* _wait_for_unlock, lines 107-109: the deadline of the wait
WaitInit(t) ==
    /\ AtPc(t, "waitinit")
    /\ stack' = SetTop(t, [Top(t) EXCEPT !.pc = "wait",
                              !.deadline = WaitTimeout(Top(t).msg, timeout),
                              !.tmoAtStart = timeout])
    /\ elapsed' = [elapsed EXCEPT ![t] = 0]
    /\ UNCHANGED <<locking_thread, timeout, queue, left, apart, result,
                   invoked, unlocks, expired>>

\* (mutant) a wait that never gives up
TimedOut_Never(e, d) == FALSE

\* line 111: time.time() > timeout, with e the time waited and d the
\* effective timeout of the wait
TimedOut(e, d) == e > d

\* _wait_for_unlock, lines 110-112: the loop ends when the bus is unlocked
\* (timedOut records whether the timeout had elapsed by then)
WaitUnlocked(t) ==
    /\ AtPc(t, "wait")
    /\ ~bus_locked
    /\ stack' = Replace(t, PastGate([Top(t) EXCEPT
                      !.timedOut = TimedOut(elapsed[t], Top(t).deadline)]))
    /\ elapsed' = [elapsed EXCEPT ![t] = 0]
    /\ UNCHANGED <<locking_thread, timeout, queue, left, apart, result,
                   invoked, unlocks, expired>>

\* _wait_for_unlock, lines 110-112: the loop ends when the deadline has passed
WaitTimedOut(t) ==
    /\ AtPc(t, "wait")
    /\ bus_locked
    /\ TimedOut(elapsed[t], Top(t).deadline)
    /\ stack' = Replace(t, PastGate([Top(t) EXCEPT !.timedOut = TRUE]))
    /\ elapsed' = [elapsed EXCEPT ![t] = 0]
    /\ UNCHANGED <<locking_thread, timeout, queue, left, apart, result,
                   invoked, unlocks, expired>>

\* time.time() advances by one tick, for every thread that is waiting (the
\* time waited is not counted beyond the first tick past the deadline)
Tick ==
    /\ \E t \in Threads : AtPc(t, "wait") /\ elapsed[t] <= Top(t).deadline
    /\ elapsed' = [t \in Threads |->
                      IF AtPc(t, "wait") /\ elapsed[t] <= Top(t).deadline
                          THEN elapsed[t] + 1 ELSE elapsed[t]]
    /\ expired' = (expired \/ \E t \in Threads :
                      AtPc(t, "wait") /\ elapsed[t] = Top(t).deadline)
    /\ UNCHANGED <<locking_thread, timeout, queue, stack, left, apart, result,
                   invoked, unlocks>>

\* _lock_bus, line 115: self.timeout.value = the message's override or the default
LockTimeoutWrite(t) ==
    /\ AtPc(t, "lock")
    /\ timeout' = LockTimeout(Top(t).msg)
    /\ stack' = SetTop(t, [Top(t) EXCEPT !.pc = "lock2"])
    /\ UNCHANGED <<locking_thread, queue, elapsed, left, apart, result,
                   invoked, unlocks, expired>>

\* _lock_bus, line 116, and handle, line 90: the owner is written and the
\* continuation is called
LockOwnerWrite(t) ==
    /\ AtPc(t, "lock2")
    /\ locking_thread' = c_ulong(get_thread_id(t))
    /\ stack' = Replace(t, <<[Top(t) EXCEPT !.pc = "next", !.qstart = Len(queue)],
                             HandlerFrame(Top(t).msg)>>)
    /\ UNCHANGED <<timeout, queue, elapsed, left, apart, result, invoked, unlocks, expired>>

\* a handler passes its next nested message to locker.handle
HandlerCalls(t) ==
    /\ Depth(t) > 0
    /\ Top(t).kind = "handler"
    /\ Top(t).k <= Len(Message[Top(t).msg].nested)
    /\ Depth(t) < MaxDepth
    /\ stack' = [stack EXCEPT ![t] =
                    Push(@, HandleFrame(Message[Top(t).msg].nested[Top(t).k]))]
    /\ UNCHANGED <<locking_thread, timeout, queue, elapsed, left, apart, result,
                   invoked, unlocks, expired>>

\* the frame of handle that is in its continuation when the handler of t
\* raises and holds the lock for a locking message (0: none)
HeldAt(t) ==
    LET held == {i \in 1..Depth(t) : stack[t][i].kind = "handle" /\ stack[t][i].pc = "next"}
    IN IF held = {} THEN 0 ELSE CHOOSE i \in held : \A j \in held : i <= j

\* a handler raises: neither the handlers nor handle catch anything, so the
\* exception unwinds every frame of the thread and reaches the top-level caller
HandlerRaises(t) ==
    /\ Depth(t) > 0
    /\ Top(t).kind = "handler"
    /\ Top(t).k > Len(Message[Top(t).msg].nested)
    /\ Message[Top(t).msg].raises
    /\ stack' = [stack EXCEPT ![t] = << >>]
    /\ result' = [result EXCEPT ![t] =
                     [kind |-> "raise", held |-> HeldAt(t) # 0,
                      qstart |-> IF HeldAt(t) # 0 THEN stack[t][HeldAt(t)].qstart ELSE 0]]
    /\ UNCHANGED <<locking_thread, timeout, queue, elapsed, left, apart,
                   invoked, unlocks, expired>>

\* a handler returns to the handle frame that called it: line 87 returns the
\* value, line 90 keeps it as result, _handle_queue (line 123) drops it
HandlerReturns(t) ==
    /\ Depth(t) > 1
    /\ Top(t).kind = "handler"
    /\ Top(t).k > Len(Message[Top(t).msg].nested)
    /\ ~Message[Top(t).msg].raises
    /\ LET r == Message[Top(t).msg].ret
           f == Below(t)
           g == CASE f.pc = "pass" -> [f EXCEPT !.pc = "ret", !.path = "pass", !.res = r]
                  [] f.pc = "next" -> [f EXCEPT !.pc = "unlock", !.res = r]
                  [] f.pc = "own" -> [f EXCEPT !.pc = "ret", !.path = "own", !.res = r]
                  [] OTHER -> [f EXCEPT !.k = @ + 1, !.res = AfterDrained(f.res, r)]
       IN stack' = [stack EXCEPT ![t] = Push(Pop(Pop(@)), g)]
    /\ UNCHANGED <<locking_thread, timeout, queue, elapsed, left, apart, result,
                   invoked, unlocks, expired>>

\* _unlock_bus, line 119
Unlock(t) ==
    /\ AtPc(t, "unlock")
    /\ locking_thread' = 0
    /\ unlocks' = [unlocks EXCEPT ![t] = @ + 1]
    /\ stack' = SetTop(t, [Top(t) EXCEPT !.pc = "drain", !.k = 1])
    /\ UNCHANGED <<timeout, queue, elapsed, left, apart, result, invoked, expired>>

\* _handle_queue, lines 122-123: one iteration calls the continuation of the
\* next queued pair
DrainNext(t) ==
    /\ AtPc(t, "drain")
    /\ Top(t).k <= Len(queue)
    /\ LET i == DrainIndex(Top(t).k, Len(queue))
       IN /\ invoked' = [invoked EXCEPT ![i] = @ + 1]
          /\ stack' = Replace(t, <<[Top(t) EXCEPT !.drained = Append(@, queue[i])],
                                   HandlerFrame(queue[i])>>)
    /\ UNCHANGED <<locking_thread, timeout, queue, elapsed, left, apart, result,
                   unlocks, expired>>

\* (mutant) the iteration may stop before the end of the queue
DrainDone_Early(t) ==
    /\ AtPc(t, "drain")
    /\ stack' = SetTop(t, [Top(t) EXCEPT !.pc = "ret", !.path = "locked"])
    /\ UNCHANGED <<locking_thread, timeout, queue, elapsed, left, apart, result,
                   invoked, unlocks, expired>>

\* _handle_queue: the iteration is over; handle goes on to line 94
DrainDone(t) ==
    /\ AtPc(t, "drain")
    /\ Top(t).k > Len(queue)
    /\ stack' = SetTop(t, [Top(t) EXCEPT !.pc = "ret", !.path = "locked"])
    /\ UNCHANGED <<locking_thread, timeout, queue, elapsed, left, apart, result,
                   invoked, unlocks, expired>>

\* handle returns (lines 82, 87, 94): to the handler that made the nested
\* call, which ignores the value, or to the top-level caller
Return(t) ==
    /\ AtPc(t, "ret")
    /\ IF Depth(t) > 1
          THEN /\ stack' = [stack EXCEPT ![t] =
                               Push(Pop(Pop(@)), [Below(t) EXCEPT !.k = @ + 1])]
               /\ UNCHANGED result
          ELSE /\ stack' = [stack EXCEPT ![t] = << >>]
               /\ result' = [result EXCEPT ![t] =
                                [kind |-> "ret", held |-> FALSE, qstart |-> 0]]
    /\ UNCHANGED <<locking_thread, timeout, queue, elapsed, left, apart,
                   invoked, unlocks, expired>>

\* the steps of BusLocker's own code
Locker(t) ==
    \/ ReadLocked(t)
    \/ ReadOwner(t)
    \/ WaitInit(t)
    \/ WaitUnlocked(t)
    \/ WaitTimedOut(t)
    \/ LockTimeoutWrite(t)
    \/ LockOwnerWrite(t)
    \/ Unlock(t)
    \/ DrainNext(t)
    \/ DrainDone(t)
    \/ Return(t)

\* the steps of the application: top-level calls and the handlers
Handler(t) ==
    \/ Call(t)
    \/ HandlerCalls(t)
    \/ HandlerRaises(t)
    \/ HandlerReturns(t)

Next == Tick \/ \E t \in Threads : (Locker(t) \/ Handler(t))

Spec == Init /\ [][Next]_vars

\* one call more than in Init, so that three threads can be in handle at once
InitThree ==
    /\ locking_thread = 0
    /\ timeout = DefaultTimeout
    /\ queue = << >>
    /\ stack = [t \in Threads |-> << >>]
    /\ elapsed = [t \in Threads |-> 0]
    /\ left = MaxCalls + 1
    /\ callers = Threads
    /\ buses = NoBuses
    /\ os_ids = ThreadsOfOneProcess
    /\ result = [t \in Threads |-> NoResult]
    /\ invoked = << >>
    /\ unlocks = [t \in Threads |-> 0]
    /\ expired = FALSE
    /\ ChainIdle
    /\ RegistryIdle
    /\ EventIdle

SpecThree == InitThree /\ [][Next]_vars

\* The operating system schedules every thread again and again and the clock
\* advances, so the locker's own code always goes on.  Nothing is assumed of
\* the application: a handler may run for ever, and no further call need come.
Fairness == WF_vars(Tick) /\ \A t \in Threads : WF_vars(Locker(t))

\* the calls are made by two threads, one to hold the lock and one to wait
InitTwo ==
    /\ locking_thread = 0
    /\ timeout = DefaultTimeout
    /\ queue = << >>
    /\ stack = [t \in Threads |-> << >>]
    /\ elapsed = [t \in Threads |-> 0]
    /\ left = MaxCalls
    /\ callers = {1, 2}
    /\ buses = NoBuses
    /\ os_ids = ThreadsOfOneProcess
    /\ result = [t \in Threads |-> NoResult]
    /\ invoked = << >>
    /\ unlocks = [t \in Threads |-> 0]
    /\ expired = FALSE
    /\ ChainIdle
    /\ RegistryIdle
    /\ EventIdle

FairSpec == InitTwo /\ [][Next]_vars /\ Fairness

\* The threads are scheduled fairly in the application's code as well: a
\* call that can be made is made, a handler that can go on goes on.
HandlerFairness == \A t \in Threads : WF_vars(Handler(t))

FairAllSpec == InitTwo /\ [][Next]_vars /\ Fairness /\ HandlerFairness

\* the messages a thread passes to handle at top level when the handlers
\* themselves use the bus: the handler of Chain passes the locking message
\* Relock to the locker, and the handler of Relock passes L
ChainedMessages(t) ==
    CASE t = 1 -> {"Chain", "Boom"}
      [] OTHER -> {"L"}

\* a thread calls locker.handle(m, next) with one of these messages
CallChained(t) ==
    /\ stack[t] = << >>
    /\ left > 0
    /\ t \in callers
    /\ \E m \in ChainedMessages(t) :
           stack' = [stack EXCEPT ![t] = <<HandleFrame(m)>>]
    /\ left' = left - 1
    /\ UNCHANGED apart
    /\ result' = [result EXCEPT ![t] = NoResult]
    /\ UNCHANGED <<locking_thread, timeout, queue, elapsed, invoked, unlocks, expired>>

ChainedHandler(t) ==
    \/ CallChained(t)
    \/ HandlerCalls(t)
    \/ HandlerRaises(t)
    \/ HandlerReturns(t)

ChainedNext == Tick \/ \E t \in Threads : (Locker(t) \/ ChainedHandler(t))

ChainedSpec == InitTwo /\ [][ChainedNext]_vars

---------------------------------------------------------------------------
(* Callers with other process and thread identifiers *)

\* (process id, thread id) pairs of callers: two whose decimal digits run
\* together to the same number, one whose number is a multiple of 2^16 and
\* one whose number is wider than 16 bits
IdPairs ==
    { [pid |-> 1, ident |-> 23], [pid |-> 12, ident |-> 3],
      [pid |-> 6, ident |-> 5536], [pid |-> 70, ident |-> 1000] }

\* threads 1 and 2 are callers with distinct pairs, in one process or in two
IdInit ==
    /\ locking_thread = 0
    /\ timeout = DefaultTimeout
    /\ queue = << >>
    /\ stack = [t \in Threads |-> << >>]
    /\ elapsed = [t \in Threads |-> 0]
    /\ left = MaxCalls
    /\ callers = {1, 2}
    /\ buses = NoBuses
    /\ os_ids \in {[ThreadsOfOneProcess EXCEPT ![1] = p[1], ![2] = p[2]] :
                        p \in {q \in IdPairs \X IdPairs : q[1] # q[2]}}
    /\ result = [t \in Threads |-> NoResult]
    /\ invoked = << >>
    /\ unlocks = [t \in Threads |-> 0]
    /\ expired = FALSE
    /\ ChainIdle
    /\ RegistryIdle
    /\ EventIdle

IdSpec == IdInit /\ [][Next]_vars

---------------------------------------------------------------------------
(* Two MessageBus instances *)

\* the objects the module boss_bus.middleware creates when it is imported:
\* DEFAULT_MIDDLEWARE = [BusLocker(), MessageLogger()]
DEFAULT_MIDDLEWARE == <<"BusLocker of the module", "MessageLogger of the module">>

\* a list [BusLocker(), MessageLogger()] the application builds for bus b
OwnMiddleware(b) == <<"BusLocker of " \o b, "MessageLogger of " \o b>>

Buses == {"A", "B"}

\* middleware=None, the default of the parameter of MessageBus.__init__ (a
\* sequence, as the lists are, so that the two can be compared)
NoMiddleware == <<None>>

\* the bus a thread submits its messages to
BusOf(t) == IF t = 3 THEN "B" ELSE "A"

\* MessageBus.__init__: self.middleware
MessageBus_middleware(b) ==
    IF buses[b] # NoMiddleware THEN buses[b] ELSE DEFAULT_MIDDLEWARE

\* the BusLocker of bus b: the outermost middleware of its chain
LockerOf(b) == MessageBus_middleware(b)[1]

\* the locker whose state is locking_thread, timeout and queue
SharedLocker == DEFAULT_MIDDLEWARE[1]

\* bus A is built as MessageBus(), bus B as MessageBus() or with a
\* middleware list of its own; threads 1 and 3 submit messages
BusesInit ==
    /\ locking_thread = 0
    /\ timeout = DefaultTimeout
    /\ queue = << >>
    /\ stack = [t \in Threads |-> << >>]
    /\ elapsed = [t \in Threads |-> 0]
    /\ left = MaxCalls
    /\ callers = {1, 3}
    /\ buses \in {[A |-> NoMiddleware, B |-> arg] :
                        arg \in {NoMiddleware, OwnMiddleware("B")}}
    /\ os_ids = ThreadsOfOneProcess
    /\ result = [t \in Threads |-> NoResult]
    /\ invoked = << >>
    /\ unlocks = [t \in Threads |-> 0]
    /\ expired = FALSE
    /\ ChainIdle
    /\ RegistryIdle
    /\ EventIdle

\* handle on a locker that no other caller uses, for a message whose
\* handler makes no nested call: the bus is never locked and the queue is
\* empty, so lines 79-94 come down to the call of the continuation
OwnLockerFrames(m) == <<[HandleFrame(m) EXCEPT !.pc = "own"], HandlerFrame(m)>>

\* a thread submits a message to its bus: the chain calls handle of the
\* bus's locker with the rest of the chain as continuation
BusSubmit(t) ==
    /\ stack[t] = << >>
    /\ left > 0
    /\ t \in callers
    /\ \E m \in TopMessages(t) :
           IF LockerOf(BusOf(t)) = SharedLocker
               THEN stack' = [stack EXCEPT ![t] = <<HandleFrame(m)>>]
               ELSE /\ Message[m].nested = << >>
                    /\ stack' = [stack EXCEPT ![t] = OwnLockerFrames(m)]
    /\ left' = left - 1
    /\ UNCHANGED apart
    /\ result' = [result EXCEPT ![t] = NoResult]
    /\ UNCHANGED <<locking_thread, timeout, queue, elapsed, invoked, unlocks, expired>>

BusesHandler(t) ==
    \/ BusSubmit(t)
    \/ HandlerCalls(t)
    \/ HandlerRaises(t)
    \/ HandlerReturns(t)

BusesNext == Tick \/ \E t \in Threads : (Locker(t) \/ BusesHandler(t))

BusesSpec == BusesInit /\ [][BusesNext]_vars

---------------------------------------------------------------------------
(* Vocabulary of the properties *)

\* message m carries the locking marker
Locking(m) == Message[m].locking_message

\* the handle frames of thread t, as positions of its stack
HandleFrames(t) == {i \in 1..Depth(t) : stack[t][i].kind = "handle"}

\* thread t is inside the continuation of a locking message it took the lock for
InLockingNext(t) ==
    \E i \in HandleFrames(t) :
        stack[t][i].pc = "next" /\ Locking(stack[t][i].msg)

\* no thread but t has called handle so far
OthersIdle(t) ==
    \A u \in Threads \ {t} : stack[u] = << >> /\ result[u].kind = "none"

\* the queue positions filled since the lock window of frame f began
Window(f) == (f.qstart + 1)..Len(queue)

\* the effective timeout the claim C9 describes: the waiting message's own
\* override, and the configured default otherwise
OwnOrDefault(m) ==
    IF Message[m].has_timeout THEN Message[m].locking_timeout ELSE DefaultTimeout

---------------------------------------------------------------------------
(* C1 *)

\* C1: while no waiter's timeout has elapsed, at most one thread is inside
\* the continuation of a locking message, in every interleaving of threads
\* that call handle with locking messages.
C1_MutualExclusion ==
    ~expired => Cardinality({t \in Threads : InLockingNext(t)}) <= 1

---------------------------------------------------------------------------
(* C2 *)

\* C2: a caller that found the bus locked by another thread and whose timeout
\* has not elapsed invokes its continuation only after that owner has run its
\* release.
C2_WaitsForRelease ==
    \A t \in Threads : \A i \in HandleFrames(t) :
        LET f == stack[t][i]
        IN (/\ f.saw # 0
            /\ f.saw # c_ulong(get_thread_id(t))
            /\ ~f.timedOut
            /\ f.pc \in {"pass", "next"})
           => unlocks[ThreadOf(f.saw)] > f.sawUnl

---------------------------------------------------------------------------
(* C3 *)

\* the depths of a stack at which a handle frame can be: a top-level call,
\* and a nested call made by the handler of a top-level call
HandleDepths == {1, 3}

\* the handle call at depth d of thread t is in the loop of _wait_for_unlock
WaitingAt(t, d) == Depth(t) = d /\ AtPc(t, "wait")

\* the handle call at depth d of thread t has called its continuation
NextInvokedAt(t, d) ==
    /\ Depth(t) > d
    /\ stack[t][d].kind = "handle"
    /\ stack[t][d].pc \in {"pass", "next"}
    /\ stack[t][d + 1].kind = "handler"
    /\ stack[t][d + 1].msg = stack[t][d].msg

\* C3: a caller waiting for a bus that another thread has locked always
\* eventually invokes its continuation, whether or not the holder releases.
C3_WaiterProceeds ==
    \A t \in Threads : \A d \in HandleDepths :
        WaitingAt(t, d) ~> NextInvokedAt(t, d)

\* a waiter whose timeout elapsed is in its continuation while the bus is
\* still locked by a thread that is still in the continuation it locked for
C3_Witness ==
    \E t \in Threads : \E u \in Threads \ {t} :
        /\ NextInvokedAt(t, 1)
        /\ stack[t][1].timedOut
        /\ stack[t][1].saw = c_ulong(get_thread_id(u))
        /\ unlocks[u] = stack[t][1].sawUnl
        /\ InLockingNext(u)
        /\ bus_locked

---------------------------------------------------------------------------
(* C4 *)

---------------------------------------------------------------------------
(* C5 *)

\* C5 (one thread): when an exception raised by the continuation of a
\* locking message has reached the caller of handle, the bus is unlocked and
\* every pair queued during the lock window has been invoked.
C5_ExceptionSafe ==
    \A t \in Threads :
        (OthersIdle(t) /\ stack[t] = << >> /\ result[t].kind = "raise" /\ result[t].held)
            => /\ ~bus_locked
               /\ \A j \in (result[t].qstart + 1)..Len(queue) : invoked[j] >= 1

---------------------------------------------------------------------------
(* C6 *)

\* C6: every postponed pair is invoked at most once in all, and the queue is
\* empty when a handle call that locked the bus is about to return.
C6_ExactlyOnce ==
    /\ \A j \in 1..Len(queue) : invoked[j] <= 1
    /\ \A t \in Threads : \A i \in HandleFrames(t) :
           (stack[t][i].pc = "ret" /\ stack[t][i].path = "locked") => queue = << >>

---------------------------------------------------------------------------
(* C7 *)

\* C7: the continuations one drain has invoked so far are those of the first
\* pairs of the queue, in the order in which they were enqueued, and the
\* drain runs after the unlock of the handle call it belongs to.
C7_FifoDrain ==
    \A t \in Threads : \A i \in HandleFrames(t) :
        LET f == stack[t][i]
        IN /\ Len(f.drained) <= Len(queue)
           /\ \A j \in 1..Len(f.drained) : f.drained[j] = queue[j]
           /\ f.drained # << >> => f.pc \in {"drain", "ret"}
           /\ f.pc = "drain" =>
                  /\ f.k \in {Len(f.drained), Len(f.drained) + 1}
                  /\ f.k = Len(f.drained) =>
                         /\ Depth(t) > i
                         /\ stack[t][i + 1].kind = "handler"
                         /\ stack[t][i + 1].msg = queue[f.k]

\* a drain has invoked two different postponed messages
C7_Witness ==
    \E t \in Threads : \E i \in HandleFrames(t) :
        /\ Len(stack[t][i].drained) >= 2
        /\ stack[t][i].drained[1] # stack[t][i].drained[2]

---------------------------------------------------------------------------
(* C8 *)

C8_Results ==
    \A t \in Threads : \A i \in HandleFrames(t) :
        LET f == stack[t][i]
        IN ~Locking(f.msg) =>
               /\ f.pc \notin {"lock", "lock2", "next", "unlock", "drain"}
               /\ f.pc = "pass" =>
                      /\ Depth(t) > i
                      /\ stack[t][i + 1].kind = "handler"
                      /\ stack[t][i + 1].msg = f.msg
               /\ f.pc = "ret" =>
                      \/ f.path = "pass" /\ f.res = Message[f.msg].ret
                      \/ /\ f.path = "postponed"
                         /\ f.res = None
                         /\ f.saw = c_ulong(get_thread_id(t))

\* a step of a handle call with a message that lacks the marker writes
\* neither the owner nor the shared timeout
C8_Frame ==
    \A t \in Threads :
        (/\ Depth(t) > 0
         /\ Top(t).kind = "handle"
         /\ ~Locking(Top(t).msg)
         /\ stack'[t] # stack[t])
            => UNCHANGED <<locking_thread, timeout>>

---------------------------------------------------------------------------
(* C9 *)

\* C9 as stated: the time a caller waits is bounded by its message's own
\* override, or else by the configured default timeout.
C9_BoundedByOwnOrDefault ==
    \A t \in Threads :
        AtPc(t, "wait") => elapsed[t] <= OwnOrDefault(Top(t).msg) + 1

\* C9 (amended): the time a caller waits is bounded by its message's own
\* override, or else by the shared timeout as it was when the wait began:
\* the override of the message that last went through _lock_bus, or the
\* default when that message has none or no message has locked yet.
C9_BoundedByOwnOrShared ==
    /\ timeout \in {LockTimeout(m) : m \in {n \in MessageNames : Locking(n)}}
    /\ \A t \in Threads : \A i \in HandleFrames(t) :
           LET f == stack[t][i]
               bound == IF Message[f.msg].has_timeout
                            THEN Message[f.msg].locking_timeout ELSE f.tmoAtStart
           IN f.pc = "wait" =>
                  /\ f.deadline = bound
                  /\ elapsed[t] <= bound + 1
                  /\ f.tmoAtStart \in {LockTimeout(m) : m \in MessageNames}

\* a waiter without an override has waited longer than the default allows,
\* by the override of the message that holds the lock
C9_Witness ==
    \E t \in Threads :
        /\ AtPc(t, "wait")
        /\ ~Message[Top(t).msg].has_timeout
        /\ Top(t).deadline = Message["LT"].locking_timeout
        /\ elapsed[t] = Top(t).deadline + 1
        /\ elapsed[t] > DefaultTimeout + 1

---------------------------------------------------------------------------
(* C10 *)

\* C10: a handle call that locked the bus returns the value its own
\* continuation returned, whatever the drained continuations returned.
C10_ReturnsOwnResult ==
    \A t \in Threads : \A i \in HandleFrames(t) :
        LET f == stack[t][i]
        IN (f.pc \in {"unlock", "drain", "ret"} /\ f.path \in {"", "locked"})
               => f.res = Message[f.msg].ret

\* a locking call is about to return after its drain invoked continuations
\* that returned other values
C10_Witness ==
    \E t \in Threads : \E i \in HandleFrames(t) :
        /\ stack[t][i].pc = "ret"
        /\ stack[t][i].path = "locked"
        /\ stack[t][i].drained # << >>
        /\ \A j \in 1..Len(stack[t][i].drained) :
               Message[stack[t][i].drained[j]].ret # stack[t][i].res

---------------------------------------------------------------------------
(* MessageBus (src/src/boss_bus/bus.py), create_middleware_chain           *)
(* (middleware/middleware.py) and MessageLogger (middleware/log.py).       *)
(* A bus call builds the chain of its middlewares around the terminal bus  *)
(* closure and calls it.  frames is the call stack of that call: a         *)
(* "handle" frame is one call of MessageLogger.handle, a "bus" frame is    *)
(* the call of the terminal closure.  One action is the code of one call   *)
(* up to the next call or return.                                          *)

\* the longest middleware list a MessageBus is constructed with
MaxMiddleware == 2

\* bus calls made in one run
MaxDispatch == 1

\* the MessageLogger instances, named by the logger each is bound to
Loggers == {"first", "second"}

\* the messages of the examples: their class attributes and what handling
\* them does (logs: the handler logs the message's data, raises: it raises)
BusMessage ==
    [LogTestCommand |->
         [message_type |-> "command", logging_message |-> TRUE,
          handler |-> "LoggingCommandHandler",
          logs |-> TRUE, raises |-> FALSE, value |-> None],
     LogErrorCommand |->
         [message_type |-> "command", logging_message |-> TRUE,
          handler |-> "LoggingCommandHandler",
          logs |-> FALSE, raises |-> TRUE, value |-> None],
     LoggingCommand |->
         [message_type |-> "command", logging_message |-> TRUE,
          handler |-> "ReturnCommandHandler",
          logs |-> FALSE, raises |-> FALSE, value |-> "command_data"],
     LogTestEvent |->
         [message_type |-> "event", logging_message |-> TRUE,
          handler |-> "LoggingEventHandler",
          logs |-> TRUE, raises |-> FALSE, value |-> None],
     LogErrorEvent |->
         [message_type |-> "event", logging_message |-> TRUE,
          handler |-> "LoggingEventHandler",
          logs |-> FALSE, raises |-> TRUE, value |-> None],
     PrintCommand |->
         [message_type |-> "command", logging_message |-> FALSE,
          handler |-> "PrintCommandHandler",
          logs |-> FALSE, raises |-> FALSE, value |-> None],
     ReturnCommand |->
         [message_type |-> "command", logging_message |-> FALSE,
          handler |-> "ReturnCommandHandler",
          logs |-> FALSE, raises |-> FALSE, value |-> "command_data"],
     ExampleEvent |->
         [message_type |-> "event", logging_message |-> FALSE,
          handler |-> "ExampleEventHandler",
          logs |-> FALSE, raises |-> FALSE, value |-> None]]

BusMessages == DOMAIN BusMessage

Commands == {m \in BusMessages : BusMessage[m].message_type = "command"}

Events == {m \in BusMessages : BusMessage[m].message_type = "event"}

\* (mutant) every message is taken to carry the logging marker
logging_applicable_Always(m) == TRUE

\* MessageLogger.message_applicable: getattr(message, "logging_message", False)
logging_applicable(m) == BusMessage[m].logging_message

\* LoggingMessage.message_verbs of the message's class
message_verbs(m) ==
    IF BusMessage[m].message_type = "command"
        THEN <<"execute", "executed", "executing">>
        ELSE <<"dispatch", "dispatched", "dispatching">>

\* str.capitalize on the verbs
capitalize(w) ==
    CASE w = "executing" -> "Executing"
      [] w = "dispatching" -> "Dispatching"
      [] w = "handling" -> "Handling"
      [] OTHER -> w

\* the three texts of a LoggingMessage, word by word
pre_handle_log(m) ==
    <<capitalize(message_verbs(m)[3]), BusMessage[m].message_type, m>>

post_handle_log(m) ==
    <<"Successfully", message_verbs(m)[2], BusMessage[m].message_type, m>>

error_log(m) ==
    <<"Failed", message_verbs(m)[3], BusMessage[m].message_type, m>>

\* a log record as caplog.record_tuples shows it (logger name, level, text),
\* with the depth of the call that emitted it
Record(name, levelname, text, depth) ==
    [name |-> name, levelname |-> levelname, text |-> text, depth |-> depth]

\* the terminal closure of MessageBus.execute and MessageBus.dispatch
bus_closure == <<"bus_closure">>

\* partial(middleware_closure, one_middleware, next_handler)
partial(one_middleware, next_handler) ==
    <<"middleware_closure", one_middleware, next_handler>>

\* (mutant) the middlewares are wrapped in the order of the list
reversed_Forward(s) == s

\* reversed(middlewares)
reversed(s) == [i \in 1..Len(s) |-> s[Len(s) + 1 - i]]

RECURSIVE Wrap(_, _)
\* the loop of create_middleware_chain over the middlewares ms
Wrap(next_handler, ms) ==
    IF ms = << >>
        THEN next_handler
        ELSE Wrap(partial(Head(ms), next_handler), Tail(ms))

create_middleware_chain(closure, middlewares) ==
    Wrap(closure, reversed(middlewares))

\* the frame of MessageLogger.handle(message, next_middleware), called when
\* n records have been emitted
LoggerFrame(one_middleware, next_closure, message, n) ==
    [kind |-> "handle", mw |-> one_middleware, next |-> next_closure,
     msg |-> message, pc |-> "start", rbase |-> n, cbase |-> Len(calls)]

\* the frame of the terminal closure called with message
ClosureFrame(message, n) ==
    [kind |-> "bus", mw |-> None, next |-> << >>,
     msg |-> message, pc |-> "start", rbase |-> n, cbase |-> Len(calls)]

\* (mutant) the closure is called with another message
Invoke_Other(closure, message, n) ==
    IF closure[1] = "bus_closure"
        THEN ClosureFrame("PrintCommand", n)
        ELSE LoggerFrame(closure[2], closure[3], "PrintCommand", n)

\* calling a closure with a message: the terminal closure itself, or
\* middleware_closure(middleware, next_closure, message), which is
\* middleware.handle(message, next_closure)
Invoke(closure, message, n) ==
    IF closure[1] = "bus_closure"
        THEN ClosureFrame(message, n)
        ELSE LoggerFrame(closure[2], closure[3], message, n)

ChainTop == frames[Len(frames)]

ChainPop == SubSeq(frames, 1, Len(frames) - 1)

\* what the terminal closure does with the message of the bus call:
\* CommandBus.execute(c, handler) with nothing registered raises
\* MissingHandlerError without a handler; EventBus.dispatch(e, handlers)
\* calls the given handlers, if any, and returns None
Terminal(m, handler) ==
    IF handler = None
        THEN IF m \in Commands
                 THEN [logs |-> FALSE, kind |-> "raise", val |-> "MissingHandlerError"]
                 ELSE [logs |-> FALSE, kind |-> "value", val |-> None]
        ELSE IF BusMessage[m].raises
                 THEN [logs |-> FALSE, kind |-> "raise", val |-> "Exception"]
                 ELSE [logs |-> BusMessage[m].logs, kind |-> "value",
                       val |-> IF m \in Commands THEN BusMessage[m].value ELSE None]

\* MessageBus.__init__ with a list of MessageLoggers; no call made yet
ChainInit ==
    /\ middleware \in UNION {[1..n -> Loggers] : n \in 0..MaxMiddleware}
    /\ frames = << >>
    /\ records = << >>
    /\ calls = << >>
    /\ ret = NoReturn
    /\ entry = NoEntry
    /\ outcome = NoReturn
    /\ dleft = MaxDispatch
    /\ LockerIdle
    /\ RegistryIdle
    /\ EventIdle

\* the start of a bus call: the chain is built around the terminal closure
\* and called with the message
BusCall(name, m, handler) ==
    /\ frames = << >>
    /\ ret = NoReturn
    /\ dleft > 0
    /\ dleft' = dleft - 1
    /\ entry' = [op |-> name, msg |-> m, handler |-> handler,
                 base |-> Len(records), cbase |-> Len(calls)]
    /\ frames' = <<Invoke(create_middleware_chain(bus_closure, middleware), m,
                          Len(records))>>
    /\ outcome' = NoReturn
    /\ UNCHANGED <<middleware, records, calls, ret, lockerVars, registryVars, eventVars>>

\* MessageBus.execute(command, handler), up to the call of the chain
BusExecute ==
    \E m \in Commands : \E handler \in {None, BusMessage[m].handler} :
        BusCall("execute", m, handler)

\* MessageBus.dispatch(event, handlers), up to the call of the chain
BusDispatch ==
    \E m \in Events : \E handler \in {None, BusMessage[m].handler} :
        BusCall("dispatch", m, handler)

\* MessageLogger.handle, lines 70-77: a message without the marker goes
\* straight to next_middleware; for a logging message the pre-handling
\* record is emitted and next_middleware is called inside the try
LoggerEnter ==
    /\ frames # << >>
    /\ ChainTop.kind = "handle"
    /\ ChainTop.pc = "start"
    /\ IF logging_applicable(ChainTop.msg)
          THEN /\ records' = Append(records,
                       Record(ChainTop.mw, "INFO",
                              pre_handle_log(ChainTop.msg), Len(frames)))
               /\ frames' = ChainPop \o <<[ChainTop EXCEPT !.pc = "try"],
                                          Invoke(ChainTop.next, ChainTop.msg,
                                                 Len(records) + 1)>>
          ELSE /\ records' = records
               /\ frames' = ChainPop \o <<[ChainTop EXCEPT !.pc = "pass"],
                                          Invoke(ChainTop.next, ChainTop.msg,
                                                 Len(records))>>
    /\ UNCHANGED <<middleware, calls, ret, entry, outcome, dleft,
                   lockerVars, registryVars, eventVars>>

\* the terminal closure: the handler is invoked, logs what it logs through
\* the root logger, and returns or raises
BusClosure ==
    /\ frames # << >>
    /\ ChainTop.kind = "bus"
    /\ calls' = Append(calls, [msg |-> ChainTop.msg, at |-> Len(records),
                               kind |-> Terminal(ChainTop.msg, entry.handler).kind,
                               val |-> Terminal(ChainTop.msg, entry.handler).val])
    /\ records' =
           IF Terminal(ChainTop.msg, entry.handler).logs
               THEN Append(records, Record("root", "INFO", <<"data">>, Len(frames)))
               ELSE records
    /\ ret' = [kind |-> Terminal(ChainTop.msg, entry.handler).kind,
               val |-> Terminal(ChainTop.msg, entry.handler).val]
    /\ frames' = ChainPop
    /\ UNCHANGED <<middleware, entry, outcome, dleft, lockerVars, registryVars, eventVars>>

\* the terminal closure is interrupted before its handler has done anything:
\* the interpreter raises KeyboardInterrupt in the running call
BusInterrupted ==
    /\ frames # << >>
    /\ ChainTop.kind = "bus"
    /\ calls' = Append(calls, [msg |-> ChainTop.msg, at |-> Len(records),
                               kind |-> "raise", val |-> "KeyboardInterrupt"])
    /\ ret' = [kind |-> "raise", val |-> "KeyboardInterrupt"]
    /\ frames' = ChainPop
    /\ UNCHANGED <<middleware, records, entry, outcome, dleft,
                   lockerVars, registryVars, eventVars>>

\* MessageLogger.handle, line 71: the result of next_middleware is returned,
\* its exception propagates
LoggerPass ==
    /\ frames # << >>
    /\ ChainTop.kind = "handle"
    /\ ChainTop.pc = "pass"
    /\ frames' = ChainPop
    /\ UNCHANGED <<middleware, records, calls, ret, entry, outcome, dleft,
                   lockerVars, registryVars, eventVars>>

\* the classes of the exceptions in the model that derive from Exception;
\* KeyboardInterrupt derives from BaseException only
ExceptionClasses == {"Exception", "MissingHandlerError"}

\* (mutant) the except clause catches everything
Caught_All(e) == TRUE

\* line 78: except Exception
Caught(e) == e \in ExceptionClasses

\* line 79: self.logger.exception(msg.error_log())
ExceptRecords(f, depth) == <<Record(f.mw, "ERROR", error_log(f.msg), depth)>>

\* MessageLogger.handle, lines 76-78: next_middleware raised an exception
\* that the except clause does not catch; it leaves the call as it is
LoggerUncaught ==
    /\ frames # << >>
    /\ ChainTop.kind = "handle"
    /\ ChainTop.pc = "try"
    /\ ret.kind = "raise"
    /\ ~Caught(ret.val)
    /\ frames' = ChainPop
    /\ UNCHANGED <<middleware, records, calls, ret, entry, outcome, dleft,
                   lockerVars, registryVars, eventVars>>

\* MessageLogger.handle, lines 78-80: next_middleware raised; the failure
\* record is emitted and the exception is raised again
LoggerExcept ==
    /\ frames # << >>
    /\ ChainTop.kind = "handle"
    /\ ChainTop.pc = "try"
    /\ ret.kind = "raise"
    /\ Caught(ret.val)
    /\ records' = records \o ExceptRecords(ChainTop, Len(frames))
    /\ frames' = ChainPop
    /\ UNCHANGED <<middleware, calls, ret, entry, outcome, dleft,
                   lockerVars, registryVars, eventVars>>

\* (mutant) the success is not logged
SuccessRecords_None(f, depth) == << >>

\* line 82: self.logger.info(msg.post_handle_log())
SuccessRecords(f, depth) == <<Record(f.mw, "INFO", post_handle_log(f.msg), depth)>>

\* MessageLogger.handle, lines 82-84: next_middleware returned; the success
\* record is emitted and the result is returned
LoggerSuccess ==
    /\ frames # << >>
    /\ ChainTop.kind = "handle"
    /\ ChainTop.pc = "try"
    /\ ret.kind = "value"
    /\ records' = records \o SuccessRecords(ChainTop, Len(frames))
    /\ frames' = ChainPop
    /\ UNCHANGED <<middleware, calls, ret, entry, outcome, dleft,
                   lockerVars, registryVars, eventVars>>

\* the end of the bus call: MessageBus.execute returns what the chain
\* returned, MessageBus.dispatch returns None; an exception propagates
BusReturn ==
    /\ frames = << >>
    /\ ret.kind # "none"
    /\ outcome' = IF ret.kind = "value" /\ entry.op = "dispatch"
                      THEN [kind |-> "value", val |-> None]
                      ELSE ret
    /\ ret' = NoReturn
    /\ UNCHANGED <<middleware, frames, records, calls, entry, dleft,
                   lockerVars, registryVars, eventVars>>

ChainNext ==
    \/ BusExecute
    \/ BusDispatch
    \/ LoggerEnter
    \/ BusClosure
    \/ BusInterrupted
    \/ LoggerPass
    \/ LoggerUncaught
    \/ LoggerExcept
    \/ LoggerSuccess
    \/ BusReturn

ChainSpec == ChainInit /\ [][ChainNext]_vars

---------------------------------------------------------------------------
(* Vocabulary of the properties of the chain and of the MessageLogger *)

\* message m carries the logging marker
Marked(m) == BusMessage[m].logging_message

\* the bus call has come back to its caller
Finished == entry.op # "none" /\ outcome.kind # "none"

\* record r is what a MessageLogger bound to logger name emits before
\* handling message m, after handling it, after failing to handle it
IsPre(r, name, m) ==
    r.name = name /\ r.levelname = "INFO" /\ r.text = pre_handle_log(m)

IsPost(r, name, m) ==
    r.name = name /\ r.levelname = "INFO" /\ r.text = post_handle_log(m)

IsFailure(r, name, m) ==
    r.name = name /\ r.levelname = "ERROR" /\ r.text = error_log(m)

\* the MessageLoggers act after their next as well as before it: the
\* message is a logging message and its handling returns or raises an
\* exception that they catch
ActBeforeAndAfter ==
    /\ Marked(entry.msg)
    /\ outcome.kind = "raise" => outcome.val \in ExceptionClasses

\* C11: on a bus built with the middlewares [m1, m2], which both act before
\* and after their next, one call produces m1's record before handling, then
\* m2's record before handling, then the one call of the terminal closure
\* (and what the handler logs), then m2's record after handling, then m1's
\* record after handling, and nothing else.
C11_MiddlewareOrder ==
    (Finished /\ Len(middleware) = 2 /\ ActBeforeAndAfter) =>
        LET b == entry.base
            n == Len(records)
            m == entry.msg
        IN  /\ n >= b + 4
            /\ IsPre(records[b + 1], middleware[1], m)
            /\ IsPre(records[b + 2], middleware[2], m)
            /\ Len(calls) = entry.cbase + 1
            /\ calls[Len(calls)].at = b + 2
            /\ \A i \in (b + 3)..(n - 2) : records[i].name = "root"
            /\ \/ IsPost(records[n - 1], middleware[2], m)
                  /\ IsPost(records[n], middleware[1], m)
               \/ IsFailure(records[n - 1], middleware[2], m)
                  /\ IsFailure(records[n], middleware[1], m)

\* the scenario of test_middleware_handle_in_correct_order has run: five
\* records, the handler's in the middle
C11_Witness ==
    /\ Finished
    /\ middleware = <<"first", "second">>
    /\ entry.msg = "LogTestEvent"
    /\ outcome.kind = "value"
    /\ Len(records) = entry.base + 5
    /\ records[entry.base + 3].name = "root"

RECURSIVE Nested(_)
\* the closure that calls m1.handle(msg, next) with next the closure that
\* calls m2.handle(msg, next) and so on, down to the terminal closure
Nested(ms) ==
    IF ms = << >>
        THEN <<"bus_closure">>
        ELSE <<"middleware_closure", Head(ms), Nested(Tail(ms))>>

\* what the last call of the terminal closure returned or raised
TerminalResult ==
    [kind |-> calls[Len(calls)].kind, val |-> calls[Len(calls)].val]

\* the chain called by the bus call has come back
ChainReturned == entry.op # "none" /\ frames = << >> /\ ret.kind # "none"

\* C12: for every list of 0 or more middlewares, the closure that
\* create_middleware_chain builds is the nesting m1.handle(msg,
\* m2.handle(msg, ... T ...)); a call of it with a message invokes the
\* terminal closure T exactly once, with that message, and comes back with
\* what T returned or raised; MessageBus.execute returns that to its caller.
C12_ChainEquivalent ==
    /\ create_middleware_chain(bus_closure, middleware) = Nested(middleware)
    /\ entry.op # "none" => Len(calls) <= entry.cbase + 1
    /\ ChainReturned =>
           /\ Len(calls) = entry.cbase + 1
           /\ calls[Len(calls)].msg = entry.msg
           /\ ret = TerminalResult
    /\ (Finished /\ entry.op = "execute") => outcome = TerminalResult

\* test_execute_can_return_a_value, through the longest chain: the value of
\* the handler has come back through every middleware
C12_Witness ==
    /\ Finished
    /\ Len(middleware) = MaxMiddleware
    /\ entry.op = "execute"
    /\ entry.msg = "ReturnCommand"
    /\ outcome = [kind |-> "value", val |-> "command_data"]
    /\ Len(calls) = entry.cbase + 1

\* the top frame is a call of MessageLogger.handle, with message m say,
\* whose next_middleware has come back
NextCameBack == frames # << >> /\ ChainTop.kind = "handle" /\ ChainTop.pc \in {"try", "pass"}

\* the positions of the records that the call of frame f, at depth d, has
\* emitted itself, among the first n records
OwnRecords(recs, f, d) ==
    {i \in (f.rbase + 1)..Len(recs) : recs[i].depth = d}

\* while next_middleware runs for a logging message, the pre-handling record
\* of the call is in the log and next_middleware was invoked after it
C13_PreFirst ==
    \A d \in 1..Len(frames) :
        (frames[d].kind = "handle" /\ Marked(frames[d].msg) /\ frames[d].pc = "try") =>
            /\ Len(records) > frames[d].rbase
            /\ IsPre(records[frames[d].rbase + 1], frames[d].mw, frames[d].msg)
            /\ d < Len(frames) => frames[d + 1].rbase > frames[d].rbase
            /\ OwnRecords(records, frames[d], d) = {frames[d].rbase + 1}

\* the step of a MessageLogger.handle call, for a logging message, whose
\* next_middleware has returned: the call returns that result, and by then it
\* has emitted exactly two records, the pre-handling record first and the
\* success record last, around every record emitted meanwhile
C13_Step ==
    (NextCameBack /\ Marked(ChainTop.msg) /\ ret.kind = "value") =>
        LET f == ChainTop
            d == Len(frames)
            n == Len(records')
        IN  /\ frames' = ChainPop
            /\ ret' = ret
            /\ OwnRecords(records', f, d) = {f.rbase + 1, n}
            /\ n > f.rbase + 1
            /\ IsPre(records'[f.rbase + 1], f.mw, f.msg)
            /\ IsPost(records'[n], f.mw, f.msg)
            /\ \A i \in (f.rbase + 2)..(n - 1) : records'[i].depth > d
            /\ Len(calls') = f.cbase + 1

\* C13: for a logging-marked message whose handling succeeds,
\* MessageLogger.handle emits exactly two records of its own: the
\* pre-handling record before next is invoked and the success record after
\* next has returned, every record of the handler lying between them; and it
\* returns next's result.
C13_LoggingSuccess == []C13_PreFirst /\ [][C13_Step]_vars

\* test_message_logger_logs_before_and_after_message: three records, the
\* handler's in the middle
C13_Witness ==
    /\ Finished
    /\ middleware = <<"first">>
    /\ entry.msg = "LogTestCommand"
    /\ outcome = [kind |-> "value", val |-> None]
    /\ Len(records) = entry.base + 3
    /\ IsPre(records[entry.base + 1], "first", "LogTestCommand")
    /\ records[entry.base + 2].name = "root"
    /\ IsPost(records[entry.base + 3], "first", "LogTestCommand")

\* the step of a MessageLogger.handle call, for a logging message, whose
\* next_middleware has raised, whatever it raised: the call raises the same
\* exception, and by then it has emitted exactly the pre-handling record and
\* after it one failure record
C14_RaiseStep ==
    (NextCameBack /\ Marked(ChainTop.msg) /\ ret.kind = "raise") =>
        LET f == ChainTop
            d == Len(frames)
            n == Len(records')
        IN  /\ frames' = ChainPop
            /\ ret' = ret
            /\ OwnRecords(records', f, d) = {f.rbase + 1, n}
            /\ n > f.rbase + 1
            /\ IsPre(records'[f.rbase + 1], f.mw, f.msg)
            /\ IsFailure(records'[n], f.mw, f.msg)
            /\ \A i \in OwnRecords(records', f, d) : ~IsPost(records'[i], f.mw, f.msg)

C14_CaughtStep ==
    (NextCameBack /\ Marked(ChainTop.msg) /\ ret.kind = "raise"
        /\ ret.val \in ExceptionClasses) =>
        LET f == ChainTop
            d == Len(frames)
            n == Len(records')
        IN  /\ frames' = ChainPop
            /\ ret' = ret
            /\ OwnRecords(records', f, d) = {f.rbase + 1, n}
            /\ n > f.rbase + 1
            /\ IsPre(records'[f.rbase + 1], f.mw, f.msg)
            /\ IsFailure(records'[n], f.mw, f.msg)
            /\ \A i \in OwnRecords(records', f, d) : ~IsPost(records'[i], f.mw, f.msg)

\* the step when next_middleware has raised an exception that does not
\* derive from Exception: the call raises the same exception and has emitted
\* its pre-handling record only
C14_UncaughtStep ==
    (NextCameBack /\ Marked(ChainTop.msg) /\ ret.kind = "raise"
        /\ ret.val \notin ExceptionClasses) =>
        /\ frames' = ChainPop
        /\ ret' = ret
        /\ records' = records
        /\ OwnRecords(records, ChainTop, Len(frames)) = {ChainTop.rbase + 1}
        /\ IsPre(records[ChainTop.rbase + 1], ChainTop.mw, ChainTop.msg)

C15_NeverTries ==
    \A d \in 1..Len(frames) :
        (frames[d].kind = "handle" /\ ~Marked(frames[d].msg)) =>
            /\ frames[d].pc \in {"start", "pass"}
            /\ OwnRecords(records, frames[d], d) = {}
            /\ Len(calls) <= frames[d].cbase + 1

\* the steps of a MessageLogger.handle call with a message that lacks the
\* marker: it calls next_middleware with the message, and when that has come
\* back it returns what it returned or raises what it raised; no record is
\* emitted in either step
C15_Step ==
    (frames # << >> /\ ChainTop.kind = "handle" /\ ~Marked(ChainTop.msg)) =>
        /\ records' = records
        /\ ChainTop.pc = "start" =>
               /\ Len(frames') = Len(frames) + 1
               /\ frames'[Len(frames)].pc = "pass"
               /\ frames'[Len(frames')].msg = ChainTop.msg
               /\ frames'[Len(frames')].pc = "start"
        /\ ChainTop.pc # "start" =>
               /\ frames' = ChainPop
               /\ ret' = ret
               /\ ret.kind # "none"
               /\ Len(calls) = ChainTop.cbase + 1

\* C15: for a message without the logging marker, MessageLogger.handle
\* emits no log record at all, whether handling succeeds or fails, invokes
\* next exactly once and returns its result or propagates its exception.
C15_UnmarkedPassThrough == []C15_NeverTries /\ [][C15_Step]_vars

\* a command without the marker has failed through the longest chain
\* (no handler: MissingHandlerError) and nothing was logged
C15_Witness ==
    /\ Finished
    /\ Len(middleware) = MaxMiddleware
    /\ entry.msg = "PrintCommand"
    /\ outcome = [kind |-> "raise", val |-> "MissingHandlerError"]
    /\ Len(records) = entry.base
    /\ Len(calls) = entry.cbase + 1

---------------------------------------------------------------------------
(* CommandBus (src/src/boss_bus/command.py): the registry _handlers and    *)
(* the methods register_handler, remove_handler, is_registered, execute.   *)
(* One action is one call of a method, from its entry to its return or its *)
(* exception.  op keeps the call made last with what it did, prev the call *)
(* before it.                                                              *)

\* the command classes of tests/test_command.py
CommandTypes == {"ExplosionCommand", "FloodCommand"}

\* the commands executed: one instance of each class
CommandInstances == {[class |-> T] : T \in CommandTypes}

\* type(command)
type(command) == command.class

\* the handler objects of tests/test_command.py with the annotation of the
\* command parameter of their handle method, as the set of the classes the
\* annotation names
Annotations ==
    [ExplosionCommandHandler |-> {"ExplosionCommand"},
     SecondExplosionCommandHandler |-> {"ExplosionCommand"},
     UnionCommandHandler |-> {"ExplosionCommand", "FloodCommand"},
     AnyCommandHandler |-> {"Command"}]

HandlerInstances == DOMAIN Annotations

\* a handler class passed where an instance is expected
HandlerClasses == {"type ExplosionCommandHandler"}

\* what a caller may pass as a handler
HandlerArguments == HandlerInstances \cup HandlerClasses

\* (mutant) every handler is read as annotated with every command class
get_annotations_Any(handler) == CommandTypes

\* get_annotations(handler.handle)["command"]
get_annotations(handler) == Annotations[handler]

\* type_matches(annotation, command_type): the class is the annotated class
\* or one of the classes of the annotated Union
type_matches(annotation, command_type) == command_type \in annotation

\* (mutant) no handler is rejected
validate_handler_Skip(command_type, handler) == None

\* _validate_handler(command_type, handler): the exception it raises, or None
validate_handler(command_type, handler) ==
    IF handler \in HandlerClasses
        THEN "InvalidHandlerError"
        ELSE IF ~type_matches(get_annotations(handler), command_type)
                 THEN "InvalidHandlerError"
                 ELSE None

\* (mutant) every key is taken to be present
In_Always(k, d) == TRUE

\* k in d
In(k, d) == k \in DOMAIN d

\* (mutant) the lookup ignores the dict
Get_Default(d, k, default) == default

\* d.get(k, default)
Get(d, k, default) == IF k \in DOMAIN d THEN d[k] ELSE default

\* (mutant) the lookup stores the default under a missing key, as
\* d.setdefault(k, default) does
AfterGet_SetDefault(d, k, default) ==
    [j \in DOMAIN d \cup {k} |-> IF j \in DOMAIN d THEN d[j] ELSE default]

\* the dict after d.get(k, default): a plain dict, which a lookup leaves as
\* it is
AfterGet(d, k, default) == d

\* (mutant) a key that is present keeps its value
SetItem_Keep(d, k, v) == [j \in DOMAIN d \cup {k} |-> IF j \in DOMAIN d THEN d[j] ELSE v]

\* d[k] = v
SetItem(d, k, v) == [j \in DOMAIN d \cup {k} |-> IF j = k THEN v ELSE d[j]]

\* (mutant) the key is not deleted
DelItem_Keep(d, k) == d

\* (mutant) the whole dict is emptied
DelItem_Clear(d, k) == << >>

\* del d[k]
DelItem(d, k) == [j \in DOMAIN d \ {k} |-> d[j]]

\* bool(x) of a handler argument: a handler object or class is true, None is
\* false
Truthy(x) == x # None

\* what handler.handle(command) returns: a value of the handler's own making
HandleResult(handler, command) == <<handler, "handle", type(command)>>

\* the record of a call that raised
Raised(name, command_type, handler, command, error) ==
    [name |-> name, command_type |-> command_type, handler |-> handler,
     command |-> command, raised |-> error, returned |-> << >>,
     invoked |-> << >>, before |-> handlers]

\* the record of a call that returned value, having invoked the handlers hs
Returned(name, command_type, handler, command, value, hs) ==
    [name |-> name, command_type |-> command_type, handler |-> handler,
     command |-> command, raised |-> None, returned |-> value,
     invoked |-> hs, before |-> handlers]

\* CommandBus.register_handler(command_type, handler)
register_handler(command_type, handler) ==
    /\ IF validate_handler(command_type, handler) # None
          THEN /\ op' = Raised("register_handler", command_type, handler, None,
                               validate_handler(command_type, handler))
               /\ handlers' = handlers
          ELSE /\ op' = Returned("register_handler", command_type, handler, None,
                                 <<"None">>, << >>)
               /\ handlers' = SetItem(handlers, command_type, handler)
    /\ prev' = op
    /\ UNCHANGED <<lockerVars, chainVars, eventVars>>

\* CommandBus.remove_handler(command_type)
remove_handler(command_type) ==
    /\ IF ~In(command_type, handlers)
          THEN /\ op' = Raised("remove_handler", command_type, None, None,
                               "MissingHandlerError")
               /\ handlers' = handlers
          ELSE /\ op' = Returned("remove_handler", command_type, None, None,
                                 <<"None">>, << >>)
               /\ handlers' = DelItem(handlers, command_type)
    /\ prev' = op
    /\ UNCHANGED <<lockerVars, chainVars, eventVars>>

\* CommandBus.is_registered(command_type), as a function of the registry
is_registered(command_type) ==
    IF In(command_type, handlers) THEN <<"True">> ELSE <<"False">>

\* a call of CommandBus.is_registered(command_type)
IsRegistered(command_type) ==
    /\ op' = Returned("is_registered", command_type, None, None,
                      is_registered(command_type), << >>)
    /\ handlers' = handlers
    /\ prev' = op
    /\ UNCHANGED <<lockerVars, chainVars, eventVars>>

\* line 153: matched_handler = self._handlers.get(type(command), handler)
matched_handler(command, handler) == Get(handlers, type(command), handler)

\* CommandBus.execute(command, handler)
execute(command, handler) ==
    /\ IF Truthy(handler) /\ validate_handler(type(command), handler) # None
          THEN op' = Raised("execute", type(command), handler, command,
                            validate_handler(type(command), handler))
          ELSE IF Truthy(handler) /\ handler # matched_handler(command, handler)
          THEN op' = Raised("execute", type(command), handler, command,
                            "TooManyHandlersError")
          ELSE IF ~Truthy(matched_handler(command, handler))
          THEN op' = Raised("execute", type(command), handler, command,
                            "MissingHandlerError")
          ELSE op' = Returned("execute", type(command), handler, command,
                              HandleResult(matched_handler(command, handler), command),
                              <<[handler |-> matched_handler(command, handler),
                                 command |-> command]>>)
    /\ handlers' = IF Truthy(handler) /\ validate_handler(type(command), handler) # None
                       THEN handlers
                       ELSE AfterGet(handlers, type(command), handler)
    /\ prev' = op
    /\ UNCHANGED <<lockerVars, chainVars, eventVars>>

\* CommandBus.__init__, with the other components at rest
RegistryInit ==
    /\ handlers = << >>
    /\ op = NoOp
    /\ prev = NoOp
    /\ LockerIdle
    /\ ChainIdle
    /\ EventIdle

Register == \E T \in CommandTypes : \E h \in HandlerArguments : register_handler(T, h)

Remove == \E T \in CommandTypes : remove_handler(T)

Query == \E T \in CommandTypes : IsRegistered(T)

Execute ==
    \E c \in CommandInstances : \E h \in HandlerArguments \cup {None} : execute(c, h)

RegistryNext == Register \/ Remove \/ Query \/ Execute

RegistrySpec == RegistryInit /\ [][RegistryNext]_vars

---------------------------------------------------------------------------
(* Vocabulary of the properties of the CommandBus *)

\* the registry d binds command type T
Bound(d, T) == T \in DOMAIN d

\* handler argument h is an instance whose handle accepts commands of type T
Accepts(h, T) == h \in HandlerInstances /\ T \in Annotations[h]

\* the last call was execute(command) without an explicit handler
ExecutedPlain == op.name = "execute" /\ op.handler = None

\* the last call was execute(command, handler) with an explicit handler
ExecutedWith == op.name = "execute" /\ op.handler # None

\* the last call invoked handler h once, with its command, and nothing else
InvokedOnly(h) == op.invoked = <<[handler |-> h, command |-> op.command]>>

\* C16: whenever the registry, after whatever sequence of operations, binds
\* command type T to handler H, execute(instance of T) without an explicit
\* handler invokes H.handle exactly once with the command, invokes no other
\* handler, and returns what H.handle returned.
C16_ExecutesRegistered ==
    (ExecutedPlain /\ Bound(op.before, op.command_type)) =>
        /\ op.raised = None
        /\ InvokedOnly(op.before[op.command_type])
        /\ op.returned = HandleResult(op.before[op.command_type], op.command)

\* the handler that replaced another by a second register_handler is the one
\* that execute has invoked
C16_Witness ==
    /\ ExecutedPlain
    /\ op.command_type = "ExplosionCommand"
    /\ Bound(op.before, "ExplosionCommand")
    /\ op.before["ExplosionCommand"] = "UnionCommandHandler"
    /\ prev.name = "register_handler"
    /\ prev.raised = None
    /\ Bound(prev.before, "ExplosionCommand")
    /\ prev.before["ExplosionCommand"] = "ExplosionCommandHandler"
    /\ InvokedOnly("UnionCommandHandler")

JustRemoved(T) ==
    prev.name = "remove_handler" /\ prev.raised = None /\ prev.command_type = T

\* C18: execute(cmd) without an explicit handler raises MissingHandlerError
\* exactly when no handler is registered for type(cmd) at the call, as is the
\* case right after that type's handler was removed; when it raises, no
\* handler is invoked.
C18_MissingIffUnregistered ==
    ExecutedPlain =>
        /\ op.raised = "MissingHandlerError" <=> ~Bound(op.before, op.command_type)
        /\ op.raised = "MissingHandlerError" => op.invoked = << >>
        /\ JustRemoved(op.command_type) => op.raised = "MissingHandlerError"

\* a handler was registered, then removed, and execute has raised
C18_Witness ==
    /\ ExecutedPlain
    /\ JustRemoved(op.command_type)
    /\ Bound(prev.before, op.command_type)
    /\ op.raised = "MissingHandlerError"
    /\ op.invoked = << >>

\* the last two calls were register_handler(T, H), which succeeded, and then
\* remove_handler(T)
RegisteredThenRemoved ==
    /\ prev.name = "register_handler"
    /\ prev.raised = None
    /\ op.name = "remove_handler"
    /\ op.command_type = prev.command_type

\* C19: register_handler(T, H) with a valid handler followed by
\* remove_handler(T) leaves is_registered(T) false and the binding of every
\* other command type as it was before the two calls.
C19_RegisterRemoveRoundTrip ==
    RegisteredThenRemoved =>
        /\ op.raised = None
        /\ is_registered(op.command_type) = <<"False">>
        /\ ~Bound(handlers, op.command_type)
        /\ \A U \in CommandTypes \ {op.command_type} :
               /\ Bound(handlers, U) <=> Bound(prev.before, U)
               /\ Bound(handlers, U) => handlers[U] = prev.before[U]

\* the round trip was made on one type while another type stayed bound
C19_Witness ==
    /\ RegisteredThenRemoved
    /\ op.command_type = "ExplosionCommand"
    /\ Bound(prev.before, "FloodCommand")
    /\ Bound(handlers, "FloodCommand")
    /\ ~Bound(handlers, "ExplosionCommand")

\* C20: remove_handler(T) when nothing is registered for T raises
\* MissingHandlerError and leaves the whole registry as it was.
C20_RemoveUnregistered ==
    (op.name = "remove_handler" /\ ~Bound(op.before, op.command_type)) =>
        /\ op.raised = "MissingHandlerError"
        /\ handlers = op.before

\* remove_handler has raised on a registry that binds another type
C20_Witness ==
    /\ op.name = "remove_handler"
    /\ op.command_type = "FloodCommand"
    /\ op.raised = "MissingHandlerError"
    /\ Bound(handlers, "ExplosionCommand")
    /\ ~Bound(handlers, "FloodCommand")

\* the last two calls were register_handler(T, H1) and register_handler(T, H2)
\* with two different handlers that both accept T
RegisteredTwice ==
    /\ prev.name = "register_handler"
    /\ op.name = "register_handler"
    /\ op.command_type = prev.command_type
    /\ Accepts(prev.handler, prev.command_type)
    /\ Accepts(op.handler, op.command_type)
    /\ op.handler # prev.handler

\* every bound command type is bound to one handler object, and a
\* register_handler with a handler that accepts the type has bound it to that
\* handler without error, whatever was bound before
C21_Replaces ==
    /\ \A T \in DOMAIN handlers : handlers[T] \in HandlerInstances
    /\ (op.name = "register_handler" /\ Accepts(op.handler, op.command_type)) =>
           /\ op.raised = None
           /\ Bound(handlers, op.command_type)
           /\ handlers[op.command_type] = op.handler

\* an execute of a command of type T that follows the two registrations
\* invokes H2 when no explicit handler is passed, and never invokes H1
C21_Step ==
    (RegisteredTwice /\ prev' = op /\ op'.name = "execute"
        /\ op'.command_type = op.command_type) =>
        /\ op'.handler = None =>
               /\ op'.raised = None
               /\ op'.invoked = <<[handler |-> op.handler, command |-> op'.command]>>
        /\ \A i \in 1..Len(op'.invoked) : op'.invoked[i].handler # prev.handler

\* C21: at most one handler is bound to a command type in every reachable
\* state: register_handler(T, H2) after register_handler(T, H1) replaces the
\* binding without error, so a following execute(instance of T) invokes H2
\* and never H1.
C21_SingleBinding == []C21_Replaces /\ [][C21_Step]_vars

\* test order reversed: the second handler for ExplosionCommand replaced the
\* first, and execute has invoked the second
C21_Witness ==
    /\ ExecutedPlain
    /\ op.command_type = "ExplosionCommand"
    /\ prev.name = "register_handler"
    /\ prev.raised = None
    /\ prev.handler = "SecondExplosionCommandHandler"
    /\ Bound(prev.before, "ExplosionCommand")
    /\ prev.before["ExplosionCommand"] = "ExplosionCommandHandler"
    /\ InvokedOnly("SecondExplosionCommandHandler")

\* the registry d1 binds the same types to the same handlers as d2
SameBindings(d1, d2) ==
    /\ DOMAIN d1 = DOMAIN d2
    /\ \A T \in DOMAIN d1 : d1[T] = d2[T]

---------------------------------------------------------------------------
(* EventBus (src/src/boss_bus/event.py): the registry _handlers, a          *)
(* defaultdict of lists, and the methods add_handlers, remove_handlers,     *)
(* has_handlers, dispatch.  One action is one call of a method, from its    *)
(* entry to its return or its exception.  eop keeps the call made last with *)
(* what it did.                                                             *)

\* the longest handler list of the model
MaxHandlers == 3

\* the event classes: ExampleEvent of tests/examples.py and a second class
EventTypes == {"ExampleEvent", "ExplosionEvent"}

\* the events dispatched: one instance of each class
EventInstances == {[class |-> T] : T \in EventTypes}

\* the handler objects: two instances of ExampleEventHandler, one of
\* OtherEventHandler (tests/examples.py) and one handler of the second event
\* class, each with its class and the annotation of the event parameter of
\* its handle method
EventHandlers ==
    [e1 |-> [class |-> "ExampleEventHandler", event |-> {"ExampleEvent"}],
     e2 |-> [class |-> "ExampleEventHandler", event |-> {"ExampleEvent"}],
     o1 |-> [class |-> "OtherEventHandler", event |-> {"ExampleEvent"}],
     x1 |-> [class |-> "ExplosionEventHandler", event |-> {"ExplosionEvent"}]]

EventHandlerInstances == DOMAIN EventHandlers

\* a handler class passed where an instance is expected
EventHandlerClasses == {"type ExampleEventHandler"}

\* handlers = None: the argument is omitted
Omitted == <<None>>

\* type(handler)
class_of(handler) == EventHandlers[handler].class

\* get_annotations(handler.handle)["event"]
event_annotation(handler) == EventHandlers[handler].event

\* _validate_handler(event_type, handler) of event.py: the exception it
\* raises, or None
validate_event_handler(event_type, handler) ==
    IF handler \in EventHandlerClasses
        THEN "InvalidHandlerError"
        ELSE IF ~type_matches(event_annotation(handler), event_type)
                 THEN "InvalidHandlerError"
                 ELSE None

\* the value of d[k] for a defaultdict(list)
Item(d, k) == IF k \in DOMAIN d THEN d[k] ELSE << >>

\* the defaultdict after d[k] was read: a missing key is now bound to []
Touched(d, k) == IF k \in DOMAIN d THEN d ELSE SetItem(d, k, << >>)

\* (mutant) the list takes a handler it holds already only once
ListAppend_Once(l, x) == IF \E i \in 1..Len(l) : l[i] = x THEN l ELSE Append(l, x)

\* list.append(x)
ListAppend(l, x) == Append(l, x)

\* (mutant) the new items are put in front
ListExtend_Front(l, xs) == xs \o l

\* list.extend(xs)
ListExtend(l, xs) == l \o xs

\* list.remove(x) for an x the list holds: the first item equal to x goes
RECURSIVE ListRemove(_, _)
ListRemove(l, x) ==
    IF l = << >> THEN l
    ELSE IF Head(l) = x THEN Tail(l)
    ELSE <<Head(l)>> \o ListRemove(Tail(l), x)

\* lines 131-135: the registered handlers of the class of handler
matching_handlers(l, handler) ==
    SelectSeq(l, LAMBDA registered_handler :
                     class_of(handler) = class_of(registered_handler))

\* lines 143-144: every matched handler is removed from the list
RECURSIVE RemoveEach(_, _)
RemoveEach(l, matched) ==
    IF matched = << >> THEN l
    ELSE RemoveEach(ListRemove(l, Head(matched)), Tail(matched))

\* lines 90-92: the loop of add_handlers from its i-th handler on, with the
\* registry d it has made so far; the registry it leaves and what it raised
RECURSIVE AddLoop(_, _, _, _)
AddLoop(d, event_type, hs, i) ==
    IF i > Len(hs) THEN [d |-> d, raised |-> None]
    ELSE IF validate_event_handler(event_type, hs[i]) # None
        THEN [d |-> d, raised |-> validate_event_handler(event_type, hs[i])]
    ELSE AddLoop(SetItem(d, event_type, ListAppend(Item(d, event_type), hs[i])),
                 event_type, hs, i + 1)

\* lines 129-144: the loop of remove_handlers from its i-th handler on
RECURSIVE RemoveLoop(_, _, _, _)
RemoveLoop(d, event_type, hs, i) ==
    IF i > Len(hs) THEN [d |-> d, raised |-> None]
    ELSE IF validate_event_handler(event_type, hs[i]) # None
        THEN [d |-> d, raised |-> validate_event_handler(event_type, hs[i])]
    ELSE IF matching_handlers(Item(d, event_type), hs[i]) = << >>
        THEN [d |-> Touched(d, event_type), raised |-> "MissingHandlerError"]
    ELSE RemoveLoop(SetItem(d, event_type,
                        RemoveEach(Item(d, event_type),
                                   matching_handlers(Item(d, event_type), hs[i]))),
                    event_type, hs, i + 1)

\* (mutant) the handlers of every event type are dropped
ClearHandlers_All(d, event_type) == [k \in DOMAIN d \cup {event_type} |-> << >>]

\* line 126: self._handlers[event_type] = []
ClearHandlers(d, event_type) == SetItem(d, event_type, << >>)

\* the record of a call on the EventBus: what it raised (or None), what it
\* returned, the handlers it invoked in order, and the registry it found
EventCall(name, event_type, hs, event, error, value, inv) ==
    [name |-> name, event_type |-> event_type, handlers |-> hs, event |-> event,
     raised |-> error, returned |-> value, invoked |-> inv,
     before |-> event_handlers]

\* what a call that returns None has returned, and a call that raised
ReturnedNone(error) == IF error = None THEN <<"None">> ELSE << >>

\* EventBus.add_handlers(event_type, handlers)
add_handlers(event_type, hs) ==
    /\ Len(Item(event_handlers, event_type)) + Len(hs) <= MaxHandlers
    /\ event_handlers' = AddLoop(event_handlers, event_type, hs, 1).d
    /\ eop' = EventCall("add_handlers", event_type, hs, None,
                        AddLoop(event_handlers, event_type, hs, 1).raised,
                        ReturnedNone(AddLoop(event_handlers, event_type, hs, 1).raised),
                        << >>)
    /\ UNCHANGED <<lockerVars, chainVars, registryVars>>

\* EventBus.remove_handlers(event_type, handlers)
remove_handlers(event_type, hs) ==
    /\ IF hs = Omitted
          THEN /\ event_handlers' = ClearHandlers(event_handlers, event_type)
               /\ eop' = EventCall("remove_handlers", event_type, hs, None,
                                   None, <<"None">>, << >>)
          ELSE /\ event_handlers' = RemoveLoop(event_handlers, event_type, hs, 1).d
               /\ eop' = EventCall("remove_handlers", event_type, hs, None,
                              RemoveLoop(event_handlers, event_type, hs, 1).raised,
                              ReturnedNone(RemoveLoop(event_handlers, event_type, hs, 1).raised),
                              << >>)
    /\ UNCHANGED <<lockerVars, chainVars, registryVars>>

\* EventBus.has_handlers(event_type), as a function of the registry d
has_handlers(d, event_type) == Len(Item(d, event_type))

\* a call of EventBus.has_handlers(event_type)
HasHandlers(event_type) ==
    /\ event_handlers' = Touched(event_handlers, event_type)
    /\ eop' = EventCall("has_handlers", event_type, Omitted, None, None,
                        <<has_handlers(event_handlers, event_type)>>, << >>)
    /\ UNCHANGED <<lockerVars, chainVars, registryVars>>

\* lines 176-177: the ad hoc handlers of a dispatch
adhoc(hs) == IF hs = Omitted THEN << >> ELSE hs

\* lines 179-180: matched_handlers, the list of the registry itself, after
\* the ad hoc handlers were added to it
matched_handlers(event, hs) ==
    ListExtend(Item(event_handlers, event.class), adhoc(hs))

\* EventBus.dispatch(event, handlers): every handler returns
dispatch(event, hs) ==
    /\ Len(Item(event_handlers, event.class)) + Len(adhoc(hs)) <= MaxHandlers
    /\ event_handlers' = SetItem(event_handlers, event.class, matched_handlers(event, hs))
    /\ eop' = EventCall("dispatch", event.class, hs, event, None, <<"None">>,
                        matched_handlers(event, hs))
    /\ UNCHANGED <<lockerVars, chainVars, registryVars>>

\* the sequences of at most two items of S
UpToTwo(S) == {<< >>} \cup {<<a>> : a \in S} \cup {<<a, b>> : a \in S, b \in S}

\* the handler lists passed to add_handlers and remove_handlers
HandlerLists(event_type) ==
    IF event_type = "ExampleEvent"
        THEN UpToTwo(EventHandlerInstances \cup EventHandlerClasses)
        ELSE {<< >>, <<"x1">>, <<"x1", "x1">>, <<"e1">>}

\* the ad hoc handlers passed to dispatch: handler objects
AdhocLists(event_type) ==
    IF event_type = "ExampleEvent"
        THEN UpToTwo({"e1", "e2", "o1"})
        ELSE {<<"x1">>}

\* EventBus.__init__, with the other components at rest
EventInit ==
    /\ EventIdle
    /\ LockerIdle
    /\ ChainIdle
    /\ RegistryIdle

AddHandlers == \E T \in EventTypes : \E hs \in HandlerLists(T) : add_handlers(T, hs)

RemoveHandlers ==
    \E T \in EventTypes : \E hs \in HandlerLists(T) \cup {Omitted} : remove_handlers(T, hs)

CountHandlers == \E T \in EventTypes : HasHandlers(T)

Dispatch ==
    \E e \in EventInstances : \E hs \in AdhocLists(e.class) \cup {Omitted} : dispatch(e, hs)

EventNext == AddHandlers \/ RemoveHandlers \/ CountHandlers \/ Dispatch

EventSpec == EventInit /\ [][EventNext]_vars

---------------------------------------------------------------------------
(* Vocabulary of the properties of the EventBus *)

\* how often x occurs in the list l
RECURSIVE Count(_, _)
Count(l, x) ==
    IF l = << >> THEN 0
    ELSE (IF Head(l) = x THEN 1 ELSE 0) + Count(Tail(l), x)

\* the items of the list l
Items(l) == {l[i] : i \in 1..Len(l)}

\* the last call was dispatch(event, handlers)
Dispatched == eop.name = "dispatch"

\* the last call was add_handlers(T, hs) with a non-empty list of handler
\* objects that accept T
AddedValid ==
    /\ eop.name = "add_handlers"
    /\ eop.handlers # << >>
    /\ \A h \in Items(eop.handlers) :
           h \in EventHandlerInstances /\ eop.event_type \in EventHandlers[h].event

\* the last call was remove_handlers(T, hs) with a list of handlers
RemovedListed == eop.name = "remove_handlers" /\ eop.handlers # Omitted

\* the last call was remove_handlers(T) without a list of handlers
RemovedAll == eop.name = "remove_handlers" /\ eop.handlers = Omitted

\* the handlers of the event types other than that of the last call are as
\* the call found them
OtherTypesKept ==
    \A U \in EventTypes \ {eop.event_type} :
        /\ U \in DOMAIN event_handlers <=> U \in DOMAIN eop.before
        /\ Item(event_handlers, U) = Item(eop.before, U)

\* C23: with handlers [A, B] registered for an event type in that order and
\* ad hoc handlers [C] passed to dispatch, dispatch invokes each of A, B and
\* C exactly once, in the order A, B, C; in general it invokes the registered
\* handlers in their order and then the ad hoc handlers in theirs.
C23_DispatchOrder ==
    Dispatched =>
        /\ eop.raised = None
        /\ eop.invoked = Item(eop.before, eop.event_type) \o adhoc(eop.handlers)
        /\ \A h \in EventHandlerInstances :
               Count(eop.invoked, h) =
                   Count(Item(eop.before, eop.event_type), h)
                       + Count(adhoc(eop.handlers), h)

\* test_dispatch_combines_registered_and_passed_events: two registered
\* handlers and one ad hoc handler, three different objects
C23_Witness ==
    /\ Dispatched
    /\ Item(eop.before, "ExampleEvent") = <<"e1", "o1">>
    /\ eop.handlers = <<"e2">>
    /\ eop.invoked = <<"e1", "o1", "e2">>

\* has_handlers(type(event)) is after dispatch(event, handlers) what it was
\* before it
C24_SameCount ==
    Dispatched =>
        has_handlers(event_handlers, eop.event_type)
            = has_handlers(eop.before, eop.event_type)

\* a dispatch of the same event type that follows a dispatch with ad hoc
\* handlers, and passes none itself, invokes the handlers that were
\* registered before the first of the two
C24_Step ==
    (Dispatched /\ eop'.name = "dispatch" /\ eop'.before = event_handlers
        /\ eop'.event_type = eop.event_type /\ eop'.handlers = Omitted) =>
        eop'.invoked = Item(eop.before, eop.event_type)

\* C24: ad hoc handlers passed to dispatch are used for that call only:
\* has_handlers(type(event)) has the same value after dispatch(event,
\* handlers) as before it, and a later dispatch of the same event type does
\* not invoke ad hoc handlers of an earlier call.
C24_AdhocForThatCallOnly == []C24_SameCount /\ [][C24_Step]_vars

\* remove_handlers(T, hs) was called with handler objects that were all
\* registered for T
RemovedRegistered ==
    /\ RemovedListed
    /\ \A h \in Items(eop.handlers) :
           h \in Items(Item(eop.before, eop.event_type))

\* C25: remove_handlers(T, hs) with every requested handler registered
\* removes one occurrence (the first match) per requested handler:
\* has_handlers(T) drops by exactly len(hs), and the handlers not requested,
\* including other registered instances of the same handler class, stay
\* registered in their original relative order.
C25_RemovesOnePerRequest ==
    RemovedRegistered =>
        /\ eop.raised = None
        /\ has_handlers(event_handlers, eop.event_type)
               = has_handlers(eop.before, eop.event_type) - Len(eop.handlers)
        /\ SelectSeq(Item(event_handlers, eop.event_type),
                     LAMBDA h : h \notin Items(eop.handlers))
               = SelectSeq(Item(eop.before, eop.event_type),
                           LAMBDA h : h \notin Items(eop.handlers))

\* the list of T has grown by hs, in order and with duplicates, and nothing
\* else has changed
C26_Appended ==
    AddedValid =>
        /\ eop.raised = None
        /\ Item(event_handlers, eop.event_type)
               = Item(eop.before, eop.event_type) \o eop.handlers
        /\ has_handlers(event_handlers, eop.event_type)
               = has_handlers(eop.before, eop.event_type) + Len(eop.handlers)
        /\ OtherTypesKept

\* a dispatch of an event of type T that follows the add_handlers, without
\* ad hoc handlers, invokes the handlers registered before it and then hs
C26_Step ==
    (AddedValid /\ eop'.name = "dispatch" /\ eop'.before = event_handlers
        /\ eop'.event_type = eop.event_type /\ eop'.handlers = Omitted) =>
        eop'.invoked = Item(eop.before, eop.event_type) \o eop.handlers

\* C26: add_handlers(T, hs) with a non-empty list of valid handlers appends
\* them to T's handler list in the given order, duplicates kept:
\* has_handlers(T) grows by len(hs) and a following dispatch invokes the
\* previously registered handlers first, then hs in order.
C26_AddAppends == []C26_Appended /\ [][C26_Step]_vars

\* a handler that was registered already was added again, after another
C26_Witness ==
    /\ AddedValid
    /\ eop.event_type = "ExampleEvent"
    /\ Item(eop.before, "ExampleEvent") = <<"e1">>
    /\ eop.handlers = <<"o1", "e1">>
    /\ event_handlers["ExampleEvent"] = <<"e1", "o1", "e1">>

\* the errors of the TypeError class
TypeErrors == {"TypeError", "TypeCheckError"}

\* C27: add_handlers(T, []) with an empty handler list fails with a
\* TypeError-class error and leaves the event registry unchanged.
C27_EmptyListRefused ==
    (eop.name = "add_handlers" /\ eop.handlers = << >>) =>
        /\ eop.raised \in TypeErrors
        /\ event_handlers = eop.before

\* C28: remove_handlers(T) with handlers omitted clears every handler of T
\* after any sequence of add_handlers and dispatch calls: has_handlers(T) is
\* 0 afterwards, the handlers of other event types are unchanged, and the
\* call does not fail when T has no handlers.
C28_RemoveAllClears ==
    RemovedAll =>
        /\ eop.raised = None
        /\ has_handlers(event_handlers, eop.event_type) = 0
        /\ OtherTypesKept

\* three handlers of ExampleEvent were cleared, one of them left there by a
\* dispatch, while ExplosionEvent kept its handler
C28_Witness ==
    /\ RemovedAll
    /\ eop.event_type = "ExampleEvent"
    /\ Len(Item(eop.before, "ExampleEvent")) = 3
    /\ event_handlers["ExampleEvent"] = << >>
    /\ Item(event_handlers, "ExplosionEvent") = <<"x1">>

---------------------------------------------------------------------------
(* C29 *)

\* thread t owns the lock: the owner field holds its id
Owns(t) == locking_thread = c_ulong(get_thread_id(t))

\* the handle call on top of the stack of thread t found, at line 79, the
\* bus locked by thread t itself
FoundItselfOwner(t) ==
    AtPc(t, "owner") /\ Top(t).saw = c_ulong(get_thread_id(t))

\* thread t takes a step of its own
Steps(t) == stack'[t] # stack[t]

\* the top frame of thread t after the step
TopAfter(t) == stack'[t][Len(stack'[t])]

\* A handle call made by the thread that owns the lock: at line 79 it goes on
\* to the ownership test whatever the message; at lines 80-82 it appends the
\* message to the queue and is at its return with None, with no continuation
\* called and no wait begun; the return then hands back to the caller with
\* the pair still not invoked by this call.
C29_Step ==
    \A t \in Threads :
        /\ (AtPc(t, "start") /\ Owns(t) /\ Steps(t)) =>
               /\ Len(stack'[t]) = Depth(t)
               /\ TopAfter(t).kind = "handle"
               /\ TopAfter(t).pc = "owner"
               /\ queue' = queue
        /\ (FoundItselfOwner(t) /\ Steps(t)) =>
               /\ queue' = Append(queue, Top(t).msg)
               /\ invoked'[Len(queue')] = 0
               /\ Len(stack'[t]) = Depth(t)
               /\ TopAfter(t).pc = "ret"
               /\ TopAfter(t).path = "postponed"
               /\ TopAfter(t).res = None
               /\ elapsed' = elapsed
        /\ (AtPc(t, "ret") /\ Top(t).path = "postponed" /\ Steps(t)) =>
               /\ Len(stack'[t]) < Depth(t)
               /\ queue' = queue
               /\ invoked' = invoked

\* C29: postponement does not depend on the locking marker: any message,
\* locking or not, passed to BusLocker.handle by the thread that currently
\* owns the lock is appended to the queue, and that handle call returns None
\* without invoking next and without blocking.
C29_OwnerPostponed == [][C29_Step]_vars

---------------------------------------------------------------------------
(* C30 *)

\* the pairs thread t has postponed from inside the continuation that its
\* handle frame f is running: the pairs of the lock window of f (in the
\* model only the thread that is inside a continuation postpones)
PostponedInside(t, f) == Window(f)

\* C30: in every interleaving of threads sharing one BusLocker, including
\* interleavings in which a waiter's timeout elapses and it takes the lock
\* over, a postponed continuation is never invoked before the next call of
\* the handle that owned the lock when the pair was enqueued has returned.
C30_DrainAfterOwnerNext ==
    \A t \in Threads :
        \A i \in HandleFrames(t) :
            stack[t][i].pc = "next" =>
                \A j \in PostponedInside(t, stack[t][i]) : invoked[j] = 0

---------------------------------------------------------------------------
(* C31 *)

\* C31: a release only ends the releasing caller's own ownership: whenever a
\* thread is inside next for a locking message for which it acquired the
\* lock, bus_locked is true, even after another thread that held the lock
\* earlier (and was overridden by a timeout) performs its unlock.
C31_LockedWhileInNext ==
    \A t \in Threads : InLockingNext(t) => bus_locked

---------------------------------------------------------------------------
(* C32 *)

\* no continuation has raised
NoRaise == \A t \in Threads : result[t].kind # "raise"

\* the handle call on top of the stack of thread t has neither called its
\* continuation nor postponed its message yet: it is at the tests of lines
\* 79-80, in the wait, or in _lock_bus
BeforeNext(t) ==
    /\ Depth(t) > 0
    /\ Top(t).kind = "handle"
    /\ Top(t).pc \in {"start", "owner", "waitinit", "wait", "lock", "lock2"}

\* the handle call on top of the stack of thread t has called its
\* continuation, or has postponed its message
NextCalledOrPostponed(t) ==
    /\ Depth(t) > 0
    /\ \/ Top(t).kind = "handler"
       \/ Top(t).kind = "handle" /\ Top(t).pc = "ret" /\ Top(t).path = "postponed"

\* every call made so far has returned
Returned_All == \A t \in Threads : stack[t] = << >>

\* every pair of the queue has been invoked
AllInvoked == \A j \in 1..Len(queue) : invoked[j] > 0

\* C32: no message is lost: every message passed to BusLocker.handle, whether
\* it passes through, waits, or is postponed, eventually has its next
\* continuation invoked, provided every continuation returns normally and
\* threads are scheduled fairly.  (The queue only grows and a pair that was
\* invoked stays invoked, so that every pair is invoked once the whole
\* queue has been, which happens again and again.)
C32_NoMessageLost ==
    []NoRaise =>
        /\ \A t \in Threads : BeforeNext(t) ~> NextCalledOrPostponed(t)
        /\ []<>AllInvoked
        /\ []<>Returned_All

\* a message that waited out its timeout and two postponed messages have
\* all been handled, and every call has returned
C32_Witness ==
    /\ NoRaise
    /\ expired
    /\ Len(queue) >= 2
    /\ AllInvoked
    /\ Returned_All
    /\ result[2].kind = "ret"

---------------------------------------------------------------------------
(* C33 *)

\* frame i of thread t is a handle call whose _handle_queue is inside the
\* continuation of the pair at position k of the queue
DrainRuns(t, i, k) ==
    /\ i < Depth(t)
    /\ stack[t][i].kind = "handle"
    /\ stack[t][i].pc = "drain"
    /\ DrainIndex(stack[t][i].k, Len(queue)) = k
    /\ stack[t][i + 1].kind = "handler"

\* C33: when a continuation run during the drain calls handle with a locking
\* message, the drain of that nested call does not run the pair that the
\* drain in progress is running: no pair of the queue is inside its
\* continuation for two nested handle calls of one thread at once (the run
\* from the first of them to the second would otherwise repeat for ever)
C33_NoRerunOfDrainInProgress ==
    \A t \in Threads : \A k \in 1..Len(queue) :
        \A i, j \in 1..Depth(t) :
            (DrainRuns(t, i, k) /\ DrainRuns(t, j, k)) => i = j

---------------------------------------------------------------------------
(* C34 *)

\* thread t is inside the continuation of a postponed locking message that
\* the drain of one of its handle calls is running
DrainsLocking(t) ==
    \E i \in 1..Depth(t) : \E k \in 1..Len(queue) :
        DrainRuns(t, i, k) /\ Locking(queue[k])

\* thread u goes from _lock_bus into the continuation of its locking message
\* in this step, without having waited until its timeout
StartsLocking(u) ==
    /\ AtPc(u, "lock2")
    /\ ~Top(u).timedOut
    /\ Steps(u)

C34_Step ==
    \A t, u \in Threads :
        (t # u /\ DrainsLocking(t)) => ~StartsLocking(u)

\* C34: while the continuation of a postponed locking message runs during
\* the drain, no other thread starts the continuation of a locking message
\* of its own (other than by waiting until its timeout has passed)
C34_PostponedKeepsExclusivity == [][C34_Step]_vars

---------------------------------------------------------------------------
(* C35 *)

\* thread u, in a call submitted to its bus, is waiting for the bus to be
\* unlocked
Delayed(u) == AtPc(u, "waitinit") \/ AtPc(u, "wait")

\* C35: a message submitted to one MessageBus is not made to wait by a lock
\* that was taken for a message of a different MessageBus: the owner a
\* waiting thread saw at line 79 is a thread of its own bus
C35_LockStatePerBus ==
    \A u \in Threads :
        Delayed(u) => BusOf(ThreadOf(Top(u).saw)) = BusOf(u)

---------------------------------------------------------------------------
(* C36 *)

\* the last call was execute, with or without an explicit handler
Executed == op.name = "execute"

\* the call before the last was execute(command, handler) with an explicit
\* handler for a command type that was not bound, and it succeeded
UsedOnce ==
    /\ prev.name = "execute"
    /\ prev.handler # None
    /\ prev.raised = None
    /\ ~Bound(prev.before, prev.command_type)

\* C36: execute, whether it returns or raises, leaves the registry as it
\* was: is_registered answers for every command type as it did before the
\* call, and a command type whose explicit handler was used once is still
\* without handler in the execute that follows
C36_ExecuteKeepsRegistry ==
    /\ Executed =>
           /\ handlers = op.before
           /\ \A T \in CommandTypes :
                  (is_registered(T) = <<"True">>) <=> Bound(op.before, T)
    /\ (ExecutedPlain /\ UsedOnce /\ op.command_type = prev.command_type) =>
           op.raised = "MissingHandlerError"

\* an explicit handler was used once for a type that was not bound, and the
\* execute that followed found no handler
C36_Witness ==
    /\ ExecutedPlain
    /\ UsedOnce
    /\ op.command_type = prev.command_type
    /\ op.raised = "MissingHandlerError"
    /\ \A T \in CommandTypes : is_registered(T) = <<"False">>

---------------------------------------------------------------------------
(* C37 *)

\* C37: a remove_handlers(T, hs) that raises MissingHandlerError leaves the
\* handler list of T exactly as it was before the call
C37_RemoveAllOrNothing ==
    (RemovedListed /\ eop.raised = "MissingHandlerError") =>
        Item(event_handlers, eop.event_type) = Item(eop.before, eop.event_type)

---------------------------------------------------------------------------
(* C38 *)

\* the value the owner field holds after thread t has stored its id
StoredId(t) == c_ulong(get_thread_id(t))

\* the callers have distinct (process id, thread id) pairs
DistinctPairs == \A t, u \in callers : t # u => os_ids[t] # os_ids[u]

\* the ids of distinct callers differ, as computed and as stored, and none is
\* stored as 0, the value that stands for "unlocked"
C38_Distinguishes ==
    DistinctPairs =>
        /\ \A t, u \in callers :
               t # u => /\ get_thread_id(t) # get_thread_id(u)
                        /\ StoredId(t) # StoredId(u)
        /\ \A t \in callers : StoredId(t) # 0

\* thread t writes the owner field in this step (_lock_bus, line 116)
StoresOwner(t) == AtPc(t, "lock2") /\ Steps(t)

\* what t then finds when it computes its id again (_in_locking_thread)
C38_Step ==
    \A t \in Threads :
        StoresOwner(t) => locking_thread' = get_thread_id(t)

\* C38: for distinct (process id, thread id) pairs the values get_thread_id
\* produces and the owner field stores are different and non-zero, and the
\* value a thread has stored equals the value it computes again
C38_OwnerIdDistinguishes == []C38_Distinguishes /\ [][C38_Step]_vars

====
